---- MODULE Spec2Model ----
(***************************************************************************)
(* A model of reddit_miner's analysis pipeline: the SQLite store (db.py),  *)
(* the candidate selector, the scheduler loop of pipeline.analyze, the     *)
(* error classifier and the post-run validator.                            *)
(*                                                                         *)
(* Text is kept as TLA+ strings; Python's str methods are operators over   *)
(* them (Len, SubSeq and \o work on strings in TLC).  The columns `model`  *)
(* and `analyzed_at` of comment_analysis and mentions, and the columns     *)
(* submission_id, submission_title, author, score and scraped_at of        *)
(* comments, are written but never read by the modelled code and are left  *)
(* out of the rows.                                                        *)
(***************************************************************************)
EXTENDS Integers, Sequences, FiniteSets, TLC

VARIABLES
    comments,       \* table comments (working view of the connection): comment_id -> row
    analysis,       \* table comment_analysis: <<analysis_tag, comment_id>> -> row
    mentions,       \* table mentions: <<analysis_tag, comment_id, ticker>> -> sentiment
    disk,           \* the committed store: [comments, analysis, mentions]
    shortcut,       \* ticker.ENABLE_KEYWORD_SHORTCUT
    validation,     \* ticker.ENABLE_YFINANCE_VALIDATION
    yf_cache,       \* lru_cache of ticker.is_real_ticker_yf: ticker -> "unset" | "True" | "False"
    pc,             \* position of analyze(): "idle" | "item" | "attempt" | "returned" | "raised"
    cfg,            \* the arguments of the current (or last) call of analyze()
    candidates,     \* the batch fetched by analyze(): sequence of <<comment_id, body>>
    idx,            \* enumerate index of the current candidate (from 1)
    attempt,        \* the retry counter of the inner loop
    outcome,        \* the AnalyzeOutcome being built (or returned)
    now,            \* time.monotonic(), in seconds since analyze() was entered
    deadline,       \* analyze's deadline, or None
    next_call_at,   \* _pace's next_call_at
    hist,           \* history of the current run (not program state): what happened
    ops,            \* history: the store operations done so far (scrapes, saves, marks, clears)
    runs,           \* history: the runs of analyze() started so far
    limiter,        \* a RateLimiter of openai_client.py: its fields, its clock, its last wait()
    call            \* a call of normalize_ticker or analyze_comment: its argument and its results

vars == <<comments, analysis, mentions, disk, shortcut, validation, yf_cache, pc, cfg,
          candidates, idx, attempt, outcome, now, deadline, next_call_at, hist, ops, runs, limiter, call>>

None == "None"

\* None where the value is otherwise a number (timeout_seconds, deadline)
NoSeconds == 0 - 1

\* No exception
NoError == [cls |-> "None", msg |-> ""]

(***************************************************************************)
(* Python helpers over strings                                             *)
(***************************************************************************)
UpperChars == <<"A","B","C","D","E","F","G","H","I","J","K","L","M",
                "N","O","P","Q","R","S","T","U","V","W","X","Y","Z">>

LowerChars == <<"a","b","c","d","e","f","g","h","i","j","k","l","m",
                "n","o","p","q","r","s","t","u","v","w","x","y","z">>

Digits == <<"0","1","2","3","4","5","6","7","8","9">>

CharAt(s, i) == SubSeq(s, i, i)

InSeq(c, chars) == \E i \in 1..Len(chars) : chars[i] = c

LowerChar(c) ==
    IF InSeq(c, UpperChars)
    THEN LowerChars[CHOOSE i \in 1..Len(UpperChars) : UpperChars[i] = c]
    ELSE c

UpperChar(c) ==
    IF InSeq(c, LowerChars)
    THEN UpperChars[CHOOSE i \in 1..Len(LowerChars) : LowerChars[i] = c]
    ELSE c

RECURSIVE StrLower(_)
StrLower(s) ==
    IF Len(s) = 0 THEN ""
    ELSE LowerChar(CharAt(s, 1)) \o StrLower(SubSeq(s, 2, Len(s)))

RECURSIVE StrUpper(_)
StrUpper(s) ==
    IF Len(s) = 0 THEN ""
    ELSE UpperChar(CharAt(s, 1)) \o StrUpper(SubSeq(s, 2, Len(s)))

IsSpace(c) == c \in {" ", "\t", "\n", "\r"}

RECURSIVE LStrip(_)
LStrip(s) ==
    IF Len(s) > 0 /\ IsSpace(CharAt(s, 1)) THEN LStrip(SubSeq(s, 2, Len(s))) ELSE s

RECURSIVE RStrip(_)
RStrip(s) ==
    IF Len(s) > 0 /\ IsSpace(CharAt(s, Len(s))) THEN RStrip(SubSeq(s, 1, Len(s) - 1)) ELSE s

\* str.strip()
Strip(s) == RStrip(LStrip(s))

\* `sub in s`
Contains(s, sub) ==
    \E i \in 1..(Len(s) - Len(sub) + 1) : SubSeq(s, i, i + Len(sub) - 1) = sub

\* s[:n]
Truncate(s, n) == IF Len(s) > n THEN SubSeq(s, 1, n) ELSE s

Min(a, b) == IF a <= b THEN a ELSE b

Max(a, b) == IF a >= b THEN a ELSE b

(***************************************************************************)
(* ticker.py                                                               *)
(***************************************************************************)
\* _HINT_WORDS_RAW as _compile_hints keeps it: lower-cased, without repeats.
\* A word with a hyphen is the sequence of its parts.
HintWords ==
    { <<"buy">>, <<"buys">>, <<"buying">>, <<"bought">>,
      <<"accumulate">>, <<"accumulating">>, <<"accumulated">>,
      <<"add">>, <<"adds">>, <<"adding">>, <<"added">>,
      <<"increase">>, <<"increases">>, <<"increasing">>, <<"increased">>,
      <<"entry">>, <<"enter">>, <<"entering">>, <<"entered">>,
      <<"long">>, <<"upside">>, <<"up">>, <<"higher">>, <<"high">>,
      <<"rise">>, <<"rises">>, <<"rising">>, <<"rose">>,
      <<"gain">>, <<"gains">>, <<"gaining">>, <<"gained">>,
      <<"climb">>, <<"climbs">>, <<"climbing">>, <<"climbed">>,
      <<"jump">>, <<"jumps">>, <<"jumping">>, <<"jumped">>,
      <<"pop">>, <<"pops">>, <<"popping">>, <<"popped">>,
      <<"rally">>, <<"rallies">>, <<"rallying">>, <<"rallied">>,
      <<"surge">>, <<"surges">>, <<"surging">>, <<"surged">>,
      <<"soar">>, <<"soars">>, <<"soaring">>, <<"soared">>,
      <<"recover">>, <<"recovers">>, <<"recovering">>, <<"recovered">>,
      <<"rebound">>, <<"rebounds">>, <<"rebounding">>, <<"rebounded">>,
      <<"bounce">>, <<"bounces">>, <<"bouncing">>, <<"bounced">>,
      <<"uptick">>, <<"upticks">>, <<"green">>,
      <<"bullish">>, <<"bull">>, <<"bulls">>,
      <<"outperform">>, <<"outperforms">>, <<"outperforming">>, <<"outperformed">>,
      <<"beat">>, <<"beats">>, <<"beating">>, <<"hold">>, <<"holdings">>,
      <<"sell">>, <<"sells">>, <<"selling">>, <<"sold">>,
      <<"dump">>, <<"dumps">>, <<"dumping">>, <<"dumped">>,
      <<"exit">>, <<"exits">>, <<"exiting">>, <<"exited">>,
      <<"reduce">>, <<"reduces">>, <<"reducing">>, <<"reduced">>,
      <<"trim">>, <<"trims">>, <<"trimming">>, <<"trimmed">>,
      <<"cut">>, <<"cuts">>, <<"cutting">>,
      <<"short">>, <<"shorts">>, <<"shorting">>, <<"shorted">>,
      <<"downside">>, <<"down">>, <<"lower">>, <<"low">>,
      <<"fall">>, <<"falls">>, <<"falling">>, <<"fell">>,
      <<"drop">>, <<"drops">>, <<"dropping">>, <<"dropped">>,
      <<"decline">>, <<"declines">>, <<"declining">>, <<"declined">>,
      <<"lose">>, <<"loses">>, <<"losing">>, <<"lost">>,
      <<"slip">>, <<"slips">>, <<"slipping">>, <<"slipped">>,
      <<"slide">>, <<"slides">>, <<"sliding">>, <<"slid">>,
      <<"plunge">>, <<"plunges">>, <<"plunging">>, <<"plunged">>,
      <<"crash">>, <<"crashes">>, <<"crashing">>, <<"crashed">>,
      <<"tank">>, <<"tanks">>, <<"tanking">>, <<"tanked">>,
      <<"selloff">>, <<"sell", "off">>, <<"red">>,
      <<"bearish">>, <<"bear">>, <<"bears">>,
      <<"weaken">>, <<"weakens">>, <<"weakening">>, <<"weakened">>,
      <<"underperform">>, <<"underperforms">>, <<"underperforming">>, <<"underperformed">>,
      <<"miss">>, <<"misses">>, <<"missing">>, <<"missed">> }

\* regex \w (ASCII text)
IsWordChar(c) ==
    InSeq(c, UpperChars) \/ InSeq(c, LowerChars) \/ InSeq(c, Digits) \/ c = "_"

\* regex \s (form feed and vertical tab do not occur in the modelled text)
IsReSpace(c) == c \in {" ", "\t", "\n", "\r"}

\* The positions just after a match of the parts of one word starting at i in the
\* lower-cased text s: the parts in order, joined by the pattern [-\s]? .
RECURSIVE PartsEnd(_, _, _)
PartsEnd(s, i, parts) ==
    IF parts = <<>> THEN {i}
    ELSE LET p == Head(parts)
             j == i + Len(p)
         IN IF j - 1 > Len(s) \/ SubSeq(s, i, j - 1) # p THEN {}
            ELSE IF Len(parts) = 1 THEN {j}
            ELSE PartsEnd(s, j, Tail(parts))
                 \cup (IF j <= Len(s) /\ (CharAt(s, j) = "-" \/ IsReSpace(CharAt(s, j)))
                       THEN PartsEnd(s, j + 1, Tail(parts)) ELSE {})

\* regex \b at the gap before position i (1..Len+1)
WordBoundary(s, i) ==
    LET before == i > 1 /\ IsWordChar(CharAt(s, i - 1))
        after  == i <= Len(s) /\ IsWordChar(CharAt(s, i))
    IN before # after

\* _FINANCE_HINTS.search(text): (?i)\b(w1|w2|...)\b
HintSearch(text) ==
    LET s == StrLower(text)
    IN \E i \in 1..Len(s) :
          /\ WordBoundary(s, i)
          /\ \E w \in HintWords : \E j \in PartsEnd(s, i, w) : WordBoundary(s, j)

has_finance_hint(text) == text # "" /\ HintSearch(text)

IsTickerChar(c) == InSeq(c, UpperChars) \/ InSeq(c, Digits) \/ c \in {".", "-", "/"}

IsUpperLetter(c) == InSeq(c, UpperChars)

IsUpperAlnum(c) == InSeq(c, UpperChars) \/ InSeq(c, Digits)

\* re.sub(r"^[A-Z]+:", "", sym)
StripMarketPrefix(sym) ==
    LET kept == {n \in 1..Len(sym) : \A k \in 1..n : IsUpperLetter(CharAt(sym, k))}
        n == IF kept = {} THEN 0 ELSE CHOOSE m \in kept : \A r \in kept : r <= m
    IN IF n >= 1 /\ n < Len(sym) /\ CharAt(sym, n + 1) = ":"
       THEN SubSeq(sym, n + 2, Len(sym)) ELSE sym

\* The filter of normalize_ticker with the colon kept
RECURSIVE KeepTickerChars_KeepsColon(_)
KeepTickerChars_KeepsColon(s) ==
    IF Len(s) = 0 THEN ""
    ELSE (IF IsTickerChar(CharAt(s, 1)) \/ CharAt(s, 1) = ":" THEN CharAt(s, 1) ELSE "")
         \o KeepTickerChars_KeepsColon(SubSeq(s, 2, Len(s)))

\* re.sub(r"[^A-Z0-9.\-/]", "", sym)
RECURSIVE KeepTickerChars(_)
KeepTickerChars(s) ==
    IF Len(s) = 0 THEN ""
    ELSE (IF IsTickerChar(CharAt(s, 1)) THEN CharAt(s, 1) ELSE "")
         \o KeepTickerChars(SubSeq(s, 2, Len(s)))

\* str.replace(old, new) for a one-character old
RECURSIVE ReplaceChar(_, _, _)
ReplaceChar(s, old, new) ==
    IF Len(s) = 0 THEN ""
    ELSE (IF CharAt(s, 1) = old THEN new ELSE CharAt(s, 1))
         \o ReplaceChar(SubSeq(s, 2, Len(s)), old, new)

\* The share-class pattern without its bounds on the lengths
IsShareClass_AnyLength(sym) ==
    \E h \in 2..Len(sym) - 1 :
        /\ CharAt(sym, h) = "-"
        /\ \A k \in 1..h - 1 : IsUpperLetter(CharAt(sym, k))
        /\ \A k \in h + 1..Len(sym) : IsUpperAlnum(CharAt(sym, k))

\* re.fullmatch(r"[A-Z]{1,6}-[A-Z0-9]{1,3}", sym)
IsShareClass(sym) ==
    \E h \in 2..Len(sym) - 1 :
        /\ CharAt(sym, h) = "-"
        /\ h - 1 <= 6
        /\ Len(sym) - h <= 3
        /\ \A k \in 1..h - 1 : IsUpperLetter(CharAt(sym, k))
        /\ \A k \in h + 1..Len(sym) : IsUpperAlnum(CharAt(sym, k))

normalize_ticker(sym) ==
    LET s1 == StrUpper(Strip(sym))
        s2 == IF Len(s1) > 0 /\ CharAt(s1, 1) = "$" THEN SubSeq(s1, 2, Len(s1)) ELSE s1
        s3 == StripMarketPrefix(s2)
        s4 == KeepTickerChars(s3)
        s5 == ReplaceChar(s4, "/", ".")
    IN IF s1 = "" THEN ""
       ELSE IF IsShareClass(s5) THEN ReplaceChar(s5, "-", ".") ELSE s5

(***************************************************************************)
(* analyzer.py                                                             *)
(***************************************************************************)
Sentiments == {"bullish", "bearish", "neutral"}

\* The loop of analyze_comment with the last sentiment of a symbol kept
RECURSIVE MergeMentions_LastWins(_, _)
MergeMentions_LastWins(raw, n) ==
    IF n = 0 THEN << >>
    ELSE LET out == MergeMentions_LastWins(raw, n - 1)
             t == normalize_ticker(raw[n][1])
             s == raw[n][2]
         IN IF t = "" THEN out
            ELSE [x \in DOMAIN out \cup {t} |-> IF x = t THEN s ELSE out[x]]

\* The loop of analyze_comment over parsed.mentions: `out` after the first n
\* mentions, as a function from the normalized tickers seen to a sentiment.
RECURSIVE MergeMentions(_, _)
MergeMentions(raw, n) ==
    IF n = 0 THEN << >>
    ELSE LET out == MergeMentions(raw, n - 1)
             t == normalize_ticker(raw[n][1])
             s == raw[n][2]
         IN IF t = "" THEN out
            ELSE IF t \in DOMAIN out /\ out[t] # s
                 THEN [x \in DOMAIN out |-> IF x = t THEN "neutral" ELSE out[x]]
                 ELSE [x \in DOMAIN out \cup {t} |-> IF x = t THEN s ELSE out[x]]

\* analyze_comment's return value for the service answer `raw`
\* (a sequence of <<ticker, sentiment>>): list(out.items()) as a function.
analyze_comment(raw) == MergeMentions(raw, Len(raw))

(***************************************************************************)
(* Bounded inputs                                                          *)
(***************************************************************************)
\* The store operations (scrapes, saves, marks, clears) of one behaviour.
MaxOps == 2

\* The runs of analyze() of one behaviour.
MaxRuns == 1

\* The comments one scrape collects.
MaxBatch == 2

\* A transient failure is raised only while the retry counter is below this:
\* in the runs of Spec, and in the runs of SpecTimed.
MaxRetry == 1

MaxAttempt == 7

\* The longest an extraction call takes, in seconds.
MaxCallSeconds == 1

\* The timeout_seconds a run is given when it is given one.
TimeoutSeconds == 5

\* The max_requests_per_minute a run is given when pacing is on.
PacedRpm == 1

Tags == {"t1", "t2"}

\* What the collection source (save_comment's caller) can deliver.
Incoming ==
    { [comment_id |-> "c1", subreddit |-> "stocks", created_utc |-> 30, body |-> "Buy TSLA"],
      [comment_id |-> "c2", subreddit |-> "wallstreetbets", created_utc |-> 20, body |-> "TSLA moon"],
      [comment_id |-> "c3", subreddit |-> "stocks", created_utc |-> 20, body |-> " \t"],
      [comment_id |-> "c3", subreddit |-> "wallstreetbets", created_utc |-> 10, body |-> "brk-b"] }

Ids == {r.comment_id : r \in Incoming}

Subreddits == {r.subreddit : r \in Incoming}

\* The answers of the extraction service (parsed.mentions).
RawOutputs ==
    { << >>,
      << <<"$tsla", "bullish">> >>,
      << <<"TSLA", "bullish">>, <<"tsla ", "bearish">> >>,
      << <<"BRK-B", "bearish">>, <<"$", "bullish">> >> }

Tickers == UNION {DOMAIN analyze_comment(raw) : raw \in RawOutputs}

\* The failures of the extraction call: the exception's class and str(e).
Errors ==
    { [cls |-> "AuthenticationError",   msg |-> "Incorrect API key provided"],
      [cls |-> "PermissionDeniedError", msg |-> "quota exceeded for project"],
      [cls |-> "RateLimitError",        msg |-> "Rate limit reached"],
      [cls |-> "RateLimitError",        msg |-> "Error code: 429 - insufficient_quota"],
      [cls |-> "RateLimitError",        msg |-> "You Exceeded your current Quota"],
      [cls |-> "RateLimitError",        msg |-> "quota is low"],
      [cls |-> "APITimeoutError",       msg |-> "Request timed out."],
      [cls |-> "APIConnectionError",    msg |-> "Connection error."],
      [cls |-> "InternalServerError",   msg |-> "quota exceeded"],
      [cls |-> "BadRequestError",       msg |-> "insufficient_quota"],
      [cls |-> "AttributeError",        msg |-> "'NoneType' object has no attribute 'mentions'"] }

\* The limits a caller passes (SQLite takes a negative LIMIT as no limit).
Limits == -1..Cardinality(Ids)

\* The subreddits arguments a caller passes: None, or a tuple of names.
SubredditArgs ==
    { [none |-> TRUE, names |-> << >>],
      [none |-> FALSE, names |-> << >>],
      [none |-> FALSE, names |-> <<"stocks">>] }

(***************************************************************************)
(* db.py: the store                                                        *)
(***************************************************************************)
NULL == "NULL"

Statuses == {"ok", "skipped", "error"}

EmptyFn == << >>

\* INSERT OR REPLACE of one row under its primary key
Upsert(f, k, v) == [x \in DOMAIN f \cup {k} |-> IF x = k THEN v ELSE f[x]]

\* DELETE of the rows whose key is in gone
DeleteKeys(f, gone) == [x \in DOMAIN f \ gone |-> f[x]]

\* INSERT OR REPLACE INTO comments in place of INSERT OR IGNORE
save_comment_Replaces(cs, r) ==
    Upsert(cs, r.comment_id,
           [subreddit |-> r.subreddit, created_utc |-> r.created_utc, body |-> r.body])

\* save_comment / one row of save_comments_bulk: INSERT OR IGNORE INTO comments
save_comment(cs, r) ==
    IF r.comment_id \in DOMAIN cs THEN cs
    ELSE Upsert(cs, r.comment_id,
                [subreddit |-> r.subreddit, created_utc |-> r.created_utc, body |-> r.body])

\* No row of comment_analysis
NoRow == [status |-> NULL, error |-> NULL]

\* mark_analyzed_ok keeping the error detail of the row it replaces
mark_analyzed_ok_KeepsError(an, tag, id) ==
    Upsert(an, <<tag, id>>,
           [status |-> "ok",
            error |-> IF <<tag, id>> \in DOMAIN an THEN an[<<tag, id>>].error ELSE NULL])

mark_analyzed_ok(an, tag, id) == Upsert(an, <<tag, id>>, [status |-> "ok", error |-> NULL])

mark_analyzed_skipped(an, tag, id) ==
    Upsert(an, <<tag, id>>, [status |-> "skipped", error |-> NULL])

\* error[:2000]
ErrorDetailMax == 2000

mark_analyzed_error(an, tag, id, error) ==
    Upsert(an, <<tag, id>>, [status |-> "error", error |-> Truncate(error, ErrorDetailMax)])

\* save_mentions as INSERT OR IGNORE: a row already there is kept
save_mentions_KeepFirst(ms, tag, id, rows) ==
    [k \in DOMAIN ms \cup {<<tag, id, t>> : t \in DOMAIN rows} |->
        IF k \in DOMAIN ms THEN ms[k] ELSE rows[k[3]]]

\* save_mentions: INSERT OR REPLACE of one row per (ticker, sentiment) of rows
save_mentions(ms, tag, id, rows) ==
    [k \in DOMAIN ms \cup {<<tag, id, t>> : t \in DOMAIN rows} |->
        IF k[1] = tag /\ k[2] = id /\ k[3] \in DOMAIN rows THEN rows[k[3]] ELSE ms[k]]

\* The WHERE clause without its status conditions
Selected_AnyStatus(an, tag, id, retry_errors, include_skipped) == TRUE

\* The WHERE clause with 'skipped' admitted whatever include_skipped is
Selected_SkippedAlways(an, tag, id, retry_errors, include_skipped) ==
    \/ <<tag, id>> \notin DOMAIN an
    \/ retry_errors /\ an[<<tag, id>>].status = "error"
    \/ an[<<tag, id>>].status = "skipped"

\* The WHERE clause with 'error' admitted whatever retry_errors is
Selected_ErrorsAlways(an, tag, id, retry_errors, include_skipped) ==
    \/ <<tag, id>> \notin DOMAIN an
    \/ an[<<tag, id>>].status = "error"
    \/ include_skipped /\ an[<<tag, id>>].status = "skipped"

\* The WHERE clause of fetch_candidates on the LEFT JOIN row of comment id.
Selected(an, tag, id, retry_errors, include_skipped) ==
    \/ <<tag, id>> \notin DOMAIN an
    \/ retry_errors /\ an[<<tag, id>>].status = "error"
    \/ include_skipped /\ an[<<tag, id>>].status = "skipped"

\* `if subreddits:` ... AND c.subreddit IN (...)
SubredditFilter(cs, id, subreddits) ==
    \/ subreddits.none
    \/ subreddits.names = << >>
    \/ \E i \in 1..Len(subreddits.names) : subreddits.names[i] = cs[id].subreddit

\* The LEFT JOIN without `AND a.analysis_tag = ?`: a status row of any tag joins
Matching_AnyTag(cs, an, tag, retry_errors, subreddits, include_skipped) ==
    {id \in DOMAIN cs :
        /\ \/ \A t \in Tags : <<t, id>> \notin DOMAIN an
           \/ \E t \in Tags : /\ <<t, id>> \in DOMAIN an
                              /\ \/ retry_errors /\ an[<<t, id>>].status = "error"
                                 \/ include_skipped /\ an[<<t, id>>].status = "skipped"
        /\ SubredditFilter(cs, id, subreddits)}

Matching(cs, an, tag, retry_errors, subreddits, include_skipped) ==
    {id \in DOMAIN cs : /\ Selected(an, tag, id, retry_errors, include_skipped)
                        /\ SubredditFilter(cs, id, subreddits)}

\* ORDER BY c.created_utc ASC
Ordered_Ascending(cs, M) ==
    {o \in [1..Cardinality(M) -> M] :
        /\ \A i, j \in 1..Cardinality(M) : i # j => o[i] # o[j]
        /\ \A i, j \in 1..Cardinality(M) : i < j => cs[o[i]].created_utc <= cs[o[j]].created_utc}

\* ORDER BY c.created_utc DESC: the orders SQLite may return the rows of M in
\* (rows with equal created_utc come in any order).
Ordered(cs, M) ==
    {o \in [1..Cardinality(M) -> M] :
        /\ \A i, j \in 1..Cardinality(M) : i # j => o[i] # o[j]
        /\ \A i, j \in 1..Cardinality(M) : i < j => cs[o[i]].created_utc >= cs[o[j]].created_utc}

\* LIMIT ?: SQLite returns every row when the limit is negative
LimitRows(o, limit) == IF limit < 0 THEN o ELSE SubSeq(o, 1, Min(limit, Len(o)))

\* fetch_candidates: the lists of (comment_id, body) it may return
fetch_candidates(cs, an, tag, limit, retry_errors, subreddits, include_skipped) ==
    { [i \in 1..Len(LimitRows(o, limit)) |-> <<o[i], cs[o[i]].body>>] :
        o \in Ordered(cs, Matching(cs, an, tag, retry_errors, subreddits, include_skipped)) }

\* SELECT DISTINCT ticker FROM mentions WHERE analysis_tag = ?  (rows with an
\* empty ticker are dropped by `if r and r[0]`)
fetch_distinct_mentioned_tickers(ms, tag) == {k[3] : k \in {x \in DOMAIN ms : x[1] = tag}} \ {""}

\* delete_mentions_for_tickers without its condition on the tag
delete_mentions_for_tickers_AnyTag(ms, tag, tickers) ==
    DeleteKeys(ms, {k \in DOMAIN ms : k[3] \in tickers \ {""}})

\* delete_mentions_for_tickers: the chunks delete the rows of the tag whose
\* ticker is any (non-empty) ticker of the list
delete_mentions_for_tickers(ms, tag, tickers) ==
    DeleteKeys(ms, {k \in DOMAIN ms : k[1] = tag /\ k[3] \in tickers \ {""}})

\* cli._clear_analysis
clear_analysis(st, tag) ==
    [comments |-> st.comments,
     analysis |-> DeleteKeys(st.analysis, {k \in DOMAIN st.analysis : k[1] = tag}),
     mentions |-> DeleteKeys(st.mentions, {k \in DOMAIN st.mentions : k[1] = tag})]

\* cli._clear_dataset deleting the comments only
clear_dataset_KeepsMentions(st) ==
    [comments |-> EmptyFn, analysis |-> st.analysis, mentions |-> st.mentions]

\* cli._clear_dataset
clear_dataset(st) == [comments |-> EmptyFn, analysis |-> EmptyFn, mentions |-> EmptyFn]

(***************************************************************************)
(* pipeline.py: helpers                                                    *)
(***************************************************************************)
\* isinstance(e, cls): the openai exception classes the pipeline tests, with
\* APITimeoutError a subclass of APIConnectionError
IsInstance(e, cls) ==
    \/ e.cls = cls
    \/ e.cls = "APITimeoutError" /\ cls = "APIConnectionError"

_is_quota_exhausted(e) ==
    LET msg == StrLower(e.msg)
    IN \/ Contains(msg, "insufficient_quota")
       \/ Contains(msg, "quota") /\ (Contains(msg, "exceed") \/ Contains(msg, "exceeded"))

_is_retryable(e) ==
    \/ IsInstance(e, "RateLimitError")
    \/ IsInstance(e, "APITimeoutError")
    \/ IsInstance(e, "APIConnectionError")
    \/ IsInstance(e, "InternalServerError")

_is_fatal_auth(e) ==
    IsInstance(e, "AuthenticationError") \/ IsInstance(e, "PermissionDeniedError")

\* The branches with the retryable test ahead of the quota test
Handling_RetryFirst(e) ==
    IF _is_fatal_auth(e) THEN "raise"
    ELSE IF _is_retryable(e) THEN "retry"
    ELSE IF IsInstance(e, "RateLimitError") /\ _is_quota_exhausted(e) THEN "quota"
    ELSE "error"

\* The branch of `except Exception as e` that analyze() takes for e
Handling(e) ==
    IF _is_fatal_auth(e) THEN "raise"
    ELSE IF IsInstance(e, "RateLimitError") /\ _is_quota_exhausted(e) THEN "quota"
    ELSE IF _is_retryable(e) THEN "retry"
    ELSE "error"

\* Handling, computed once for each failure the model raises
HandlingOf == [e \in Errors |-> Handling(e)]

BackoffCap == 20

\* The backoff without its cap
_backoff_uncapped(k) == 2 ^ k

_backoff_seconds(k) == Min(2 ^ k, BackoffCap)

\* f"{type(e).__name__}: {e}"
ErrorText(e) == e.cls \o ": " \o e.msg

\* _sleep_with_deadline without the deadline: time.sleep(seconds)
_sleep_with_deadline_Unclamped(t, seconds, dl) ==
    IF seconds <= 0 THEN t ELSE t + seconds

\* _sleep_with_deadline: the clock after it, called at time t
_sleep_with_deadline(t, seconds, dl) ==
    IF seconds <= 0 THEN t
    ELSE IF dl = NoSeconds THEN t + seconds
    ELSE IF dl - t <= 0 THEN t
    ELSE t + Min(seconds, dl - t)

\* interval = 60.0 / max_requests_per_minute (the modelled caps divide 60)
Interval(rpm) == IF rpm # 0 /\ rpm > 0 THEN 60 \div rpm ELSE 0

\* _pace, called at time t: the clock after it and the new next_call_at
_pace(t) ==
    IF cfg.interval <= 0 THEN [now |-> t, next_call_at |-> next_call_at]
    ELSE LET t1 == IF t < next_call_at
                   THEN _sleep_with_deadline(t, next_call_at - t, deadline) ELSE t
         IN [now |-> t1, next_call_at |-> t1 + cfg.interval]

\* The time.sleep of a _sleep_with_deadline(seconds) called at t that left
\* the clock at t1: none when the clock did not move
Slept(t, seconds, t1) ==
    IF t1 > t THEN << [start |-> t, seconds |-> seconds, end |-> t1] >> ELSE << >>

\* The time.sleep of _pace, called at time t
PaceSleep(t) ==
    IF cfg.interval > 0 /\ t < next_call_at
    THEN Slept(t, next_call_at - t, _pace(t).now) ELSE << >>

\* `_now() > deadline` in place of `_now() >= deadline`
DeadlineReached_Strict == deadline # NoSeconds /\ now > deadline

\* `deadline is not None and _now() >= deadline`
DeadlineReached == deadline # NoSeconds /\ now >= deadline

\* The answers of yfinance to yf.Ticker(t).info
OracleAnswers == {"info", "empty", "raise"}

\* is_real_ticker_yf(t) when the lru_cache holds no entry: bool(info), or
\* False when the lookup raised
is_real_ticker_yf(answer) == answer = "info"

\* is_real_ticker_yf(t) through its lru_cache, the oracle answering ans[t]
CachedReal(cache, ans, t) ==
    IF cache[t] # "unset" THEN cache[t] = "True" ELSE is_real_ticker_yf(ans[t])

\* find_invalid_tickers(tickers), the oracle answering ans
find_invalid_tickers(cache, ans, tickers) ==
    IF ~validation THEN {}
    ELSE {tt \in {normalize_ticker(t) : t \in tickers} \ {""} : ~CachedReal(cache, ans, tt)}

\* The lru_cache after find_invalid_tickers(tickers)
CacheAfter(cache, ans, tickers) ==
    IF ~validation THEN cache
    ELSE [t \in DOMAIN cache |->
            IF t \in {normalize_ticker(x) : x \in tickers} \ {""}
            THEN (IF CachedReal(cache, ans, t) THEN "True" ELSE "False") ELSE cache[t]]

\* _cleanup_invalid_tickers: the mentions table after it
_cleanup_invalid_tickers(ms, tag, cache, ans) ==
    IF ~validation THEN ms
    ELSE delete_mentions_for_tickers(ms, tag,
            find_invalid_tickers(cache, ans, fetch_distinct_mentioned_tickers(ms, tag)))

\* The cache after _cleanup_invalid_tickers
CleanupCache(ms, tag, cache, ans) ==
    IF ~validation THEN cache
    ELSE CacheAfter(cache, ans, fetch_distinct_mentioned_tickers(ms, tag))

\* The symbols the cleanup looks up: those of the tag's mentions that the
\* lru_cache does not hold yet
Asked(ms, tag, cache) ==
    IF ~validation THEN {}
    ELSE {t \in {normalize_ticker(x) : x \in fetch_distinct_mentioned_tickers(ms, tag)} \ {""} :
            cache[t] = "unset"}

Store(cs, an, ms) == [comments |-> cs, analysis |-> an, mentions |-> ms]

NoOutcome == [analyzed |-> 0, errors |-> 0, analyzed_model_calls |-> 0, stopped_reason |-> None]

\* The arguments of a call of fetch_candidates, before any call
NoArgs ==
    [analysis_tag |-> "t1", limit |-> 0, retry_errors |-> FALSE,
     subreddits |-> [none |-> TRUE, names |-> << >>], include_skipped |-> FALSE]

\* No call of normalize_ticker or analyze_comment
NoCall == [fn |-> "none", input |-> "", first |-> "", output |-> "", applied |-> 0]

\* The last write call, before any
NoWrite ==
    [fn |-> "none", analysis_tag |-> "t1", comment_id |-> "c1", rows |-> EmptyFn,
     error |-> "", replaced |-> NoRow, before |-> {}, times |-> 0]

NoHist ==
    [step |-> "none", err |-> NoError, waits |-> << >>, invoked |-> 0, attempted |-> {},
     cleanups |-> 0, start |-> Store(EmptyFn, EmptyFn, EmptyFn), args |-> NoArgs,
     starts |-> << >>, write |-> NoWrite, pruned |-> {},
     answers |-> EmptyFn, sleeps |-> << >>]

\* The arguments of a run, before any run
NoCfg == [analysis_tag |-> "t1", interval |-> 0]

Running == pc \in {"item", "attempt"}

(***************************************************************************)
(* openai_client.RateLimiter.  Its clock is time.monotonic() counted in    *)
(* quarters of a second, the unit of the limiter's safety margin.          *)
(***************************************************************************)
\* 60 seconds, in quarters of a second
Window == 240

\* 0.25 seconds, in quarters of a second
Margin == 1

\* The largest max_per_minute a limiter is constructed with
MaxPerMinute == 3

\* The largest number of wait() calls on one limiter
MaxWaits == 5

\* The largest time by which time.sleep returns late, in quarters of a second
MaxOversleep == 1

\* The limiter before it is constructed
NoLimiter ==
    [configured |-> 1, max_per_minute |-> 1, times |-> << >>, clock |-> 0,
     calls |-> 0, blocked |-> FALSE, slept |-> 0, rested |-> FALSE]

\* RateLimiter.__init__: max(1, int(max_per_minute)) and an empty deque
RateLimiter(max_per_minute) ==
    [NoLimiter EXCEPT !.configured = max_per_minute,
                      !.max_per_minute = Max(1, max_per_minute)]

\* while self.times and (now - self.times[0]) > 60: self.times.popleft()
RECURSIVE Evict(_, _)
Evict(times, t) ==
    IF times # << >> /\ t - Head(times) > Window
    THEN Evict(Tail(times), t)
    ELSE times

\* sleep_for = 60 - (now - self.times[0]) + 0.25 without the safety margin
SleepFor_NoMargin(t, oldest) == Window - (t - oldest)

\* sleep_for = 60 - (now - self.times[0]) + 0.25
SleepFor(t, oldest) == Window - (t - oldest) + Margin

\* RateLimiter.wait, entered when the clock reads l.clock; time.sleep returns
\* `late` after the time asked for.  The fields calls, blocked and slept are
\* history: the number of calls, whether the last one found the window at
\* capacity, and how long it slept.
wait(l, late) ==
    LET t0      == l.clock
        kept    == Evict(l.times, t0)
        full    == Len(kept) >= l.max_per_minute
        slept   == IF full THEN Max(0, SleepFor(t0, Head(kept))) + late ELSE 0
        t1      == t0 + slept
        left    == IF full THEN Evict(kept, t1) ELSE kept
    IN  [l EXCEPT !.clock = t1, !.times = Append(left, t1), !.calls = @ + 1,
                  !.blocked = full, !.slept = slept, !.rested = FALSE]

(***************************************************************************)
(* Initial state: init_db on a new database file, the flags as cli.main    *)
(* sets them from the command line                                         *)
(***************************************************************************)
Init ==
    /\ comments = EmptyFn
    /\ analysis = EmptyFn
    /\ mentions = EmptyFn
    /\ disk = Store(EmptyFn, EmptyFn, EmptyFn)
    /\ shortcut \in BOOLEAN
    /\ validation \in BOOLEAN
    /\ yf_cache = [t \in Tickers |-> "unset"]
    /\ pc = "idle"
    /\ cfg = NoCfg
    /\ candidates = << >>
    /\ idx = 1
    /\ attempt = 0
    /\ outcome = NoOutcome
    /\ now = 0
    /\ deadline = NoSeconds
    /\ next_call_at = 0
    /\ hist = NoHist
    /\ ops = 0
    /\ runs = 0
    /\ limiter = NoLimiter
    /\ call = NoCall

(***************************************************************************)
(* Operations outside a run (the store has one writer at a time)           *)
(***************************************************************************)
\* (body or "").strip() and has_finance_hint of it, computed once for each body
\* the model can store
Bodies == {r.body : r \in Incoming} \cup {Strip(r.body) : r \in Incoming}

TextOf == [b \in Bodies |-> Strip(b)]

HintOf == [b \in Bodies |-> has_finance_hint(Strip(b))]

\* The locals of analyze() exist while it runs and until its caller has its
\* RunOutcome; the next operation on the store starts without them.
Forgotten ==
    /\ pc' = "idle"
    /\ cfg' = NoCfg
    /\ candidates' = << >>
    /\ idx' = 1
    /\ attempt' = 0
    /\ outcome' = NoOutcome
    /\ now' = 0
    /\ deadline' = NoSeconds
    /\ next_call_at' = 0
    /\ hist' = NoHist

\* scrape: each comment's body is stripped, comments with an empty body are
\* skipped, the batch is written by save_comments_bulk and committed.
ScrapedRows(batch) ==
    [i \in 1..Len(batch) |-> [batch[i] EXCEPT !.body = TextOf[batch[i].body]]]

RECURSIVE save_comments_bulk(_, _)
save_comments_bulk(cs, rows) ==
    IF rows = << >> THEN cs
    ELSE save_comments_bulk(
            IF Head(rows).body = "" THEN cs ELSE save_comment(cs, Head(rows)), Tail(rows))

Scrape(batch) ==
    /\ ~Running
    /\ ops < MaxOps
    /\ ops' = ops + 1
    /\ UNCHANGED <<runs, limiter, call>>
    /\ comments' = save_comments_bulk(comments, ScrapedRows(batch))
    /\ disk' = Store(comments', analysis, mentions)
    /\ Forgotten
    /\ UNCHANGED <<analysis, mentions, shortcut, validation, yf_cache>>

\* db.save_comment called with one row as it is, then committed by its caller
SaveComment(r) ==
    /\ ~Running
    /\ ops < MaxOps
    /\ ops' = ops + 1
    /\ UNCHANGED <<runs, limiter, call>>
    /\ comments' = save_comment(comments, r)
    /\ disk' = Store(comments', analysis, mentions)
    /\ Forgotten
    /\ UNCHANGED <<analysis, mentions, shortcut, validation, yf_cache>>

\* db.mark_analyzed_skipped for a stored comment, then committed by its caller
MarkSkipped(tag, id) ==
    /\ ~Running
    /\ ops < MaxOps
    /\ ops' = ops + 1
    /\ UNCHANGED <<runs, limiter, call>>
    /\ id \in DOMAIN comments
    /\ analysis' = mark_analyzed_skipped(analysis, tag, id)
    /\ disk' = Store(comments, analysis', mentions)
    /\ Forgotten
    /\ UNCHANGED <<comments, mentions, shortcut, validation, yf_cache>>

ClearAnalysis(tag) ==
    /\ ~Running
    /\ ops < MaxOps
    /\ ops' = ops + 1
    /\ UNCHANGED <<runs, limiter, call>>
    /\ LET st == clear_analysis(Store(comments, analysis, mentions), tag)
       IN /\ comments' = st.comments
          /\ analysis' = st.analysis
          /\ mentions' = st.mentions
          /\ disk' = st
    /\ Forgotten
    /\ UNCHANGED <<shortcut, validation, yf_cache>>

ClearDataset ==
    /\ ~Running
    /\ ops < MaxOps
    /\ ops' = ops + 1
    /\ UNCHANGED <<runs, limiter, call>>
    /\ LET st == clear_dataset(Store(comments, analysis, mentions))
       IN /\ comments' = st.comments
          /\ analysis' = st.analysis
          /\ mentions' = st.mentions
          /\ disk' = st
    /\ Forgotten
    /\ UNCHANGED <<shortcut, validation, yf_cache>>

(***************************************************************************)
(* pipeline.analyze, one action per stretch between two polls or calls     *)
(***************************************************************************)
\* Lines 246-275: the deadline, the batch, the pacing state.  The clock is
\* counted from the entry of analyze().
AnalyzeStart(tag, limit, retry_errors, subreddits, rpm, timeout_seconds) ==
    /\ ~Running
    /\ runs < MaxRuns
    /\ runs' = runs + 1
    /\ UNCHANGED <<ops, limiter, call>>
    /\ \E batch \in fetch_candidates(comments, analysis, tag, limit, retry_errors,
                                     subreddits, FALSE) :
          candidates' = batch
    /\ outcome' = NoOutcome
    /\ now' = 0
    /\ deadline' = IF timeout_seconds # NoSeconds /\ timeout_seconds # 0
                   THEN 0 + timeout_seconds ELSE NoSeconds
    /\ cfg' = [analysis_tag |-> tag, interval |-> Interval(rpm)]
    /\ next_call_at' = 0
    /\ idx' = 1
    /\ attempt' = 0
    /\ pc' = "item"
    /\ hist' = [NoHist EXCEPT !.step = "start",
                              !.start = Store(comments, analysis, mentions)]
    /\ UNCHANGED <<comments, analysis, mentions, disk, shortcut, validation, yf_cache>>

CurrentId == candidates[idx][1]

CurrentBody == candidates[idx][2]

CurrentText == TextOf[CurrentBody]

CurrentHint == HintOf[CurrentBody]

\* A stop path whose validator also deletes the status row of a record it
\* leaves without mentions
Return_DropsStatus(step, e, an, ms, oc, t) ==
    /\ \E ans \in [Asked(ms, cfg.analysis_tag, yf_cache) -> OracleAnswers] :
          /\ mentions' = _cleanup_invalid_tickers(ms, cfg.analysis_tag, yf_cache, ans)
          /\ yf_cache' = CleanupCache(ms, cfg.analysis_tag, yf_cache, ans)
          /\ hist' = [hist EXCEPT !.step = step, !.err = e, !.cleanups = @ + 1,
                                  !.pruned = DOMAIN ms \ DOMAIN mentions',
                                  !.answers = ans]
    /\ analysis' = DeleteKeys(an, {k \in DOMAIN an :
                        \E m \in DOMAIN ms \ DOMAIN mentions' :
                            /\ m[1] = k[1] /\ m[2] = k[2]
                            /\ ~\E r \in DOMAIN mentions' : r[1] = k[1] /\ r[2] = k[2]})
    /\ disk' = Store(comments, analysis', mentions')
    /\ outcome' = oc
    /\ now' = t
    /\ pc' = "returned"
    /\ UNCHANGED <<comments, shortcut, validation, cfg, candidates, idx, attempt,
                   deadline, next_call_at>>
    /\ UNCHANGED <<ops, runs, limiter, call>>

\* A stop path: conn.commit(), _cleanup_invalid_tickers (which commits what
\* it deletes), return outcome.  an, ms: the tables when the path is entered.
Return(step, e, an, ms, oc, t) ==
    /\ \E ans \in [Asked(ms, cfg.analysis_tag, yf_cache) -> OracleAnswers] :
          /\ mentions' = _cleanup_invalid_tickers(ms, cfg.analysis_tag, yf_cache, ans)
          /\ yf_cache' = CleanupCache(ms, cfg.analysis_tag, yf_cache, ans)
          /\ hist' = [hist EXCEPT !.step = step, !.err = e, !.cleanups = @ + 1,
                                  !.pruned = DOMAIN ms \ DOMAIN mentions',
                                  !.answers = ans]
    /\ analysis' = an
    /\ disk' = Store(comments, analysis', mentions')
    /\ outcome' = oc
    /\ now' = t
    /\ pc' = "returned"
    /\ UNCHANGED <<comments, shortcut, validation, cfg, candidates, idx, attempt,
                   deadline, next_call_at>>
    /\ UNCHANGED <<ops, runs, limiter, call>>

\* Lines 376-378: the for loop is exhausted
Complete ==
    /\ pc = "item"
    /\ idx > Len(candidates)
    /\ Return("complete", NoError, analysis, mentions, outcome, now)

\* Lines 279-280, 380-384: _should_abort() at the top of an item
ItemCancel ==
    /\ pc = "item"
    /\ idx <= Len(candidates)
    /\ Return("cancel", NoError, analysis, mentions,
              [outcome EXCEPT !.stopped_reason = "ctrl_c"], now)

\* The deadline stop at the top of an item reported as a cancellation
ItemTimeout_AsCancel ==
    /\ pc = "item"
    /\ idx <= Len(candidates)
    /\ DeadlineReached
    /\ Return("timeout", NoError, analysis, mentions,
              [outcome EXCEPT !.stopped_reason = "ctrl_c"], now)

\* Lines 281-286
ItemTimeout ==
    /\ pc = "item"
    /\ idx <= Len(candidates)
    /\ DeadlineReached
    /\ Return("timeout", NoError, analysis, mentions,
              [outcome EXCEPT !.stopped_reason = "timeout"], now)

\* Lines 288-291: an empty or whitespace-only body
ItemBlank ==
    /\ pc = "item"
    /\ idx <= Len(candidates)
    /\ ~DeadlineReached
    /\ CurrentText = ""
    /\ idx' = idx + 1
    /\ hist' = [hist EXCEPT !.step = "blank", !.err = NoError]
    /\ UNCHANGED <<comments, analysis, mentions, disk, shortcut, validation, yf_cache, pc,
                   cfg, candidates, attempt, outcome, now, deadline, next_call_at>>
    /\ UNCHANGED <<ops, runs, limiter, call>>

\* `if outcome.analyzed % 50 == 0: conn.commit()`
CommitEvery(n, analyzed, st) == IF analyzed % n = 0 THEN st ELSE disk

\* The keyword shortcut counted as a call of the service
ItemShortcut_CountsCall ==
    /\ pc = "item"
    /\ idx <= Len(candidates)
    /\ ~DeadlineReached
    /\ CurrentText # ""
    /\ shortcut /\ ~CurrentHint
    /\ analysis' = mark_analyzed_ok(analysis, cfg.analysis_tag, CurrentId)
    /\ outcome' = [outcome EXCEPT !.analyzed = @ + 1, !.analyzed_model_calls = @ + 1]
    /\ disk' = CommitEvery(50, outcome'.analyzed, Store(comments, analysis', mentions))
    /\ idx' = idx + 1
    /\ hist' = [hist EXCEPT !.step = "shortcut", !.err = NoError]
    /\ UNCHANGED <<comments, mentions, shortcut, validation, yf_cache, pc,
                   cfg, candidates, attempt, now, deadline, next_call_at>>
    /\ UNCHANGED <<ops, runs, limiter, call>>

\* The keyword shortcut without `outcome.analyzed += 1`
ItemShortcut_NoCount ==
    /\ pc = "item"
    /\ idx <= Len(candidates)
    /\ ~DeadlineReached
    /\ CurrentText # ""
    /\ shortcut /\ ~CurrentHint
    /\ analysis' = mark_analyzed_ok(analysis, cfg.analysis_tag, CurrentId)
    /\ disk' = CommitEvery(50, outcome.analyzed + 1, Store(comments, analysis', mentions))
    /\ idx' = idx + 1
    /\ hist' = [hist EXCEPT !.step = "shortcut", !.err = NoError]
    /\ UNCHANGED <<comments, mentions, shortcut, validation, yf_cache, pc,
                   cfg, candidates, attempt, now, deadline, next_call_at, outcome>>
    /\ UNCHANGED <<ops, runs, limiter, call>>

\* Lines 293-299: the keyword shortcut
ItemShortcut ==
    /\ pc = "item"
    /\ idx <= Len(candidates)
    /\ ~DeadlineReached
    /\ CurrentText # ""
    /\ shortcut /\ ~CurrentHint
    /\ analysis' = mark_analyzed_ok(analysis, cfg.analysis_tag, CurrentId)
    /\ outcome' = [outcome EXCEPT !.analyzed = @ + 1]
    /\ disk' = CommitEvery(50, outcome'.analyzed, Store(comments, analysis', mentions))
    /\ idx' = idx + 1
    /\ hist' = [hist EXCEPT !.step = "shortcut", !.err = NoError]
    /\ UNCHANGED <<comments, mentions, shortcut, validation, yf_cache, pc,
                   cfg, candidates, attempt, now, deadline, next_call_at>>
    /\ UNCHANGED <<ops, runs, limiter, call>>

\* Line 301: attempt = 0, into the retry loop
ItemBegin ==
    /\ pc = "item"
    /\ idx <= Len(candidates)
    /\ ~DeadlineReached
    /\ CurrentText # ""
    /\ ~(shortcut /\ ~CurrentHint)
    /\ attempt' = 0
    /\ pc' = "attempt"
    /\ hist' = [hist EXCEPT !.step = "begin", !.err = NoError, !.waits = << >>]
    /\ UNCHANGED <<comments, analysis, mentions, disk, shortcut, validation, yf_cache,
                   cfg, candidates, idx, outcome, now, deadline, next_call_at>>
    /\ UNCHANGED <<ops, runs, limiter, call>>

\* A cancellation at the top of an attempt that marks the item 'error'
AttemptCancel_MarksError ==
    /\ pc = "attempt"
    /\ Return("cancel", NoError,
              mark_analyzed_error(analysis, cfg.analysis_tag, CurrentId, "KeyboardInterrupt: "),
              mentions, [outcome EXCEPT !.stopped_reason = "ctrl_c"], now)

\* Lines 303-304, 380-384: _should_abort() at the top of an attempt
AttemptCancel ==
    /\ pc = "attempt"
    /\ Return("cancel", NoError, analysis, mentions,
              [outcome EXCEPT !.stopped_reason = "ctrl_c"], now)

\* Lines 305-310
AttemptTimeout ==
    /\ pc = "attempt"
    /\ DeadlineReached
    /\ Return("timeout", NoError, analysis, mentions,
              [outcome EXCEPT !.stopped_reason = "timeout"], now)

\* The history of one extraction call; of a paced run it keeps the time at
\* which each call started, which is the time _pace() returned
Called(h, step, e) ==
    [h EXCEPT !.step = step, !.err = e, !.invoked = @ + 1,
              !.attempted = @ \cup {idx},
              !.starts = IF cfg.interval > 0 THEN Append(@, _pace(now).now) ELSE @,
              !.sleeps = PaceSleep(now)]

\* Lines 313-329: _pace(), the call answers raw after d seconds
CallOk(raw, d) ==
    /\ pc = "attempt"
    /\ ~DeadlineReached
    /\ LET p == _pace(now)
           rows == analyze_comment(raw)
       IN /\ now' = p.now + d
          /\ next_call_at' = p.next_call_at
          /\ mentions' = save_mentions(mentions, cfg.analysis_tag, CurrentId, rows)
    /\ analysis' = mark_analyzed_ok(analysis, cfg.analysis_tag, CurrentId)
    /\ outcome' = [outcome EXCEPT !.analyzed_model_calls = @ + 1, !.analyzed = @ + 1]
    /\ disk' = CommitEvery(10, outcome'.analyzed, Store(comments, analysis', mentions'))
    /\ idx' = idx + 1
    /\ pc' = "item"
    /\ hist' = Called(hist, "ok", NoError)
    /\ UNCHANGED <<comments, shortcut, validation, yf_cache, cfg, candidates, attempt,
                   deadline>>
    /\ UNCHANGED <<ops, runs, limiter, call>>

\* Lines 331-336: KeyboardInterrupt raised inside the call
CallInterrupted(d) ==
    /\ pc = "attempt"
    /\ ~DeadlineReached
    /\ LET p == _pace(now)
       IN /\ next_call_at' = p.next_call_at
          /\ \E ans \in [Asked(mentions, cfg.analysis_tag, yf_cache) -> OracleAnswers] :
                /\ mentions' = _cleanup_invalid_tickers(mentions, cfg.analysis_tag,
                                                        yf_cache, ans)
                /\ yf_cache' = CleanupCache(mentions, cfg.analysis_tag, yf_cache, ans)
                /\ hist' = [Called(hist, "interrupt", NoError) EXCEPT
                                !.cleanups = @ + 1,
                                !.pruned = DOMAIN mentions \ DOMAIN mentions',
                                !.answers = ans]
          /\ now' = p.now + d
    /\ disk' = Store(comments, analysis, mentions')
    /\ outcome' = [outcome EXCEPT !.stopped_reason = "ctrl_c"]
    /\ pc' = "returned"
    /\ UNCHANGED <<comments, analysis, shortcut, validation, cfg, candidates, idx,
                   attempt, deadline>>
    /\ UNCHANGED <<ops, runs, limiter, call>>

\* FatalAuth without the conn.commit() before the raise
CallFatal_NoCommit(e, d) ==
    /\ pc = "attempt"
    /\ ~DeadlineReached
    /\ HandlingOf[e] = "raise"
    /\ LET p == _pace(now)
       IN /\ now' = p.now + d
          /\ next_call_at' = p.next_call_at
    /\ pc' = "raised"
    /\ hist' = Called(hist, "raise", e)
    /\ UNCHANGED <<comments, analysis, mentions, disk, shortcut, validation, yf_cache, cfg,
                   candidates, idx, attempt, outcome, deadline, ops, runs, limiter, call>>

\* Lines 339-341: FatalAuth
CallFatal(e, d) ==
    /\ pc = "attempt"
    /\ ~DeadlineReached
    /\ HandlingOf[e] = "raise"
    /\ LET p == _pace(now)
       IN /\ now' = p.now + d
          /\ next_call_at' = p.next_call_at
    /\ disk' = Store(comments, analysis, mentions)
    /\ pc' = "raised"
    /\ hist' = Called(hist, "raise", e)
    /\ UNCHANGED <<comments, analysis, mentions, shortcut, validation, yf_cache, cfg,
                   candidates, idx, attempt, outcome, deadline>>
    /\ UNCHANGED <<ops, runs, limiter, call>>

\* QuotaExhausted without the mark_analyzed_error before the return
CallQuota_NoRow(e, d) ==
    /\ pc = "attempt"
    /\ ~DeadlineReached
    /\ HandlingOf[e] = "quota"
    /\ LET p == _pace(now)
       IN /\ next_call_at' = p.next_call_at
          /\ \E ans \in [Asked(mentions, cfg.analysis_tag, yf_cache) -> OracleAnswers] :
                /\ mentions' = _cleanup_invalid_tickers(mentions, cfg.analysis_tag,
                                                        yf_cache, ans)
                /\ yf_cache' = CleanupCache(mentions, cfg.analysis_tag, yf_cache, ans)
                /\ hist' = [Called(hist, "quota", e) EXCEPT
                                !.cleanups = @ + 1,
                                !.pruned = DOMAIN mentions \ DOMAIN mentions',
                                !.answers = ans]
          /\ now' = p.now + d
    /\ disk' = Store(comments, analysis, mentions')
    /\ outcome' = [outcome EXCEPT !.stopped_reason = "quota"]
    /\ pc' = "returned"
    /\ UNCHANGED <<comments, analysis, shortcut, validation, cfg, candidates, idx, attempt,
                   deadline, ops, runs, limiter, call>>

\* Lines 343-355: QuotaExhausted
CallQuota(e, d) ==
    /\ pc = "attempt"
    /\ ~DeadlineReached
    /\ HandlingOf[e] = "quota"
    /\ LET p == _pace(now)
           an == mark_analyzed_error(analysis, cfg.analysis_tag, CurrentId, ErrorText(e))
       IN /\ next_call_at' = p.next_call_at
          /\ analysis' = an
          /\ \E ans \in [Asked(mentions, cfg.analysis_tag, yf_cache) -> OracleAnswers] :
                /\ mentions' = _cleanup_invalid_tickers(mentions, cfg.analysis_tag,
                                                        yf_cache, ans)
                /\ yf_cache' = CleanupCache(mentions, cfg.analysis_tag, yf_cache, ans)
                /\ hist' = [Called(hist, "quota", e) EXCEPT
                                !.cleanups = @ + 1,
                                !.pruned = DOMAIN mentions \ DOMAIN mentions',
                                !.answers = ans]
          /\ now' = p.now + d
    /\ disk' = Store(comments, analysis', mentions')
    /\ outcome' = [outcome EXCEPT !.stopped_reason = "quota"]
    /\ pc' = "returned"
    /\ UNCHANGED <<comments, shortcut, validation, cfg, candidates, idx, attempt, deadline>>
    /\ UNCHANGED <<ops, runs, limiter, call>>

\* Transient with `outcome.errors += 1`
CallTransient_CountsError(e, d, cap) ==
    /\ pc = "attempt"
    /\ ~DeadlineReached
    /\ HandlingOf[e] = "retry"
    /\ attempt < cap
    /\ LET p == _pace(now)
           wait_s == _backoff_seconds(attempt)
       IN /\ next_call_at' = p.next_call_at
          /\ now' = _sleep_with_deadline(p.now + d, wait_s, deadline)
          /\ hist' = [Called(hist, "retry", e) EXCEPT
                          !.waits = Append(@, wait_s),
                          !.sleeps = @ \o Slept(p.now + d, wait_s, now')]
    /\ attempt' = attempt + 1
    /\ outcome' = [outcome EXCEPT !.errors = @ + 1]
    /\ UNCHANGED <<comments, analysis, mentions, disk, shortcut, validation, yf_cache, pc,
                   cfg, candidates, idx, deadline>>
    /\ UNCHANGED <<ops, runs, limiter, call>>

\* Lines 357-361: Transient
CallTransient(e, d, cap) ==
    /\ pc = "attempt"
    /\ ~DeadlineReached
    /\ HandlingOf[e] = "retry"
    /\ attempt < cap
    /\ LET p == _pace(now)
           wait_s == _backoff_seconds(attempt)
       IN /\ next_call_at' = p.next_call_at
          /\ now' = _sleep_with_deadline(p.now + d, wait_s, deadline)
          /\ hist' = [Called(hist, "retry", e) EXCEPT
                          !.waits = Append(@, wait_s),
                          !.sleeps = @ \o Slept(p.now + d, wait_s, now')]
    /\ attempt' = attempt + 1
    /\ UNCHANGED <<comments, analysis, mentions, disk, shortcut, validation, yf_cache, pc,
                   cfg, candidates, idx, outcome, deadline>>
    /\ UNCHANGED <<ops, runs, limiter, call>>

\* PermanentItemError without `outcome.errors += 1`
CallPermanent_NoCount(e, d) ==
    /\ pc = "attempt"
    /\ ~DeadlineReached
    /\ HandlingOf[e] = "error"
    /\ LET p == _pace(now)
       IN /\ now' = p.now + d
          /\ next_call_at' = p.next_call_at
    /\ analysis' = mark_analyzed_error(analysis, cfg.analysis_tag, CurrentId, ErrorText(e))
    /\ disk' = Store(comments, analysis', mentions)
    /\ idx' = idx + 1
    /\ pc' = "item"
    /\ hist' = Called(hist, "error", e)
    /\ UNCHANGED <<comments, mentions, shortcut, validation, yf_cache, cfg, candidates,
                   attempt, outcome, deadline, ops, runs, limiter, call>>

\* Lines 363-372: PermanentItemError
CallPermanent(e, d) ==
    /\ pc = "attempt"
    /\ ~DeadlineReached
    /\ HandlingOf[e] = "error"
    /\ LET p == _pace(now)
       IN /\ now' = p.now + d
          /\ next_call_at' = p.next_call_at
    /\ analysis' = mark_analyzed_error(analysis, cfg.analysis_tag, CurrentId, ErrorText(e))
    /\ outcome' = [outcome EXCEPT !.errors = @ + 1]
    /\ disk' = Store(comments, analysis', mentions)
    /\ idx' = idx + 1
    /\ pc' = "item"
    /\ hist' = Called(hist, "error", e)
    /\ UNCHANGED <<comments, mentions, shortcut, validation, yf_cache, cfg, candidates,
                   attempt, deadline>>
    /\ UNCHANGED <<ops, runs, limiter, call>>

CallSeconds == 0..MaxCallSeconds

\* What one scrape collects: some of the incoming comments, in some order
Batches ==
    {b \in UNION {[1..n -> Incoming] : n \in 1..MaxBatch} :
        \A i, j \in DOMAIN b : i # j => b[i] # b[j]}

\* One failure of each kind
CoreErrors ==
    {e \in Errors : e.msg \in {"Incorrect API key provided", "Connection error.",
                               "Error code: 429 - insufficient_quota",
                               "'NoneType' object has no attribute 'mentions'"}}

\* The operations on the store outside a run
StoreOps ==
    \/ \E batch \in Batches : Scrape(batch)
    \/ \E r \in Incoming : SaveComment(r)
    \/ \E tag \in Tags, id \in Ids : MarkSkipped(tag, id)
    \/ \E tag \in Tags : ClearAnalysis(tag)
    \/ ClearDataset

\* The steps of a run that has no deadline
RunSteps(raws, errs, secs, cap) ==
    \/ Complete
    \/ ItemCancel
    \/ ItemBlank
    \/ ItemShortcut
    \/ ItemBegin
    \/ AttemptCancel
    \/ \E raw \in raws, d \in secs : CallOk(raw, d)
    \/ \E d \in secs : CallInterrupted(d)
    \/ \E e \in errs, d \in secs : CallFatal(e, d)
    \/ \E e \in errs, d \in secs : CallQuota(e, d)
    \/ \E e \in errs, d \in secs : CallTransient(e, d, cap)
    \/ \E e \in errs, d \in secs : CallPermanent(e, d)

(***************************************************************************)
(* Spec: the store under scrapes, saves, marks, clears and runs of         *)
(* analyze() that have no deadline and no pacing, as cli.py starts them    *)
(* (max_requests_per_minute 0 by default, timeout_seconds never passed).   *)
(***************************************************************************)
Next ==
    \/ StoreOps
    \/ \E tag \in Tags, limit \in Limits, retry_errors \in BOOLEAN,
          subreddits \in SubredditArgs :
          AnalyzeStart(tag, limit, retry_errors, subreddits, 0, NoSeconds)
    \/ RunSteps(RawOutputs, CoreErrors, {0}, MaxRetry)

Spec == Init /\ [][Next]_vars

(***************************************************************************)
(* Properties of the runs of Spec                                          *)
(***************************************************************************)
\* The status rows of a tag, and the status of one record under it
RowsOf(an, tag) == {k \in DOMAIN an : k[1] = tag}

StatusOf(an, tag, id) == IF <<tag, id>> \in DOMAIN an THEN an[<<tag, id>>].status ELSE NULL

MentionsOf(ms, tag, id) == {k \in DOMAIN ms : k[1] = tag /\ k[2] = id}

\* The last step of the run was an extraction call that failed
Failed == hist.step \in {"raise", "quota", "retry", "error"}

\* Everything written is committed
Committed == disk = Store(comments, analysis, mentions)

\* The candidates the run has moved past
Passed == 1..(idx - 1)

\* C1: a candidate whose body is empty or whitespace-only gets no extraction
\* call, and once the run has moved past it the store holds an 'ok' status row
\* for it under the run's tag.
C1_BlankBodyGetsOkRow ==
    \A i \in Passed :
        TextOf[candidates[i][2]] = "" =>
            /\ i \notin hist.attempted
            /\ StatusOf(analysis, cfg.analysis_tag, candidates[i][1]) = "ok"

\* C2: when cancellation is observed after k of the candidates are done, under a
\* tag that had no status row when the run started, the run returns with the
\* cancellation reason, the committed store holds exactly k status rows of the
\* tag, and it holds no status row and no mention of the candidate that was next.
C2_CancelledAfterK ==
    (/\ pc = "returned"
     /\ hist.step = "cancel"
     /\ RowsOf(hist.start.analysis, cfg.analysis_tag) = {}) =>
        /\ outcome.stopped_reason = "ctrl_c"
        /\ Cardinality(RowsOf(disk.analysis, cfg.analysis_tag)) = idx - 1
        /\ idx <= Len(candidates) =>
              /\ StatusOf(disk.analysis, cfg.analysis_tag, CurrentId) = NULL
              /\ MentionsOf(disk.mentions, cfg.analysis_tag, CurrentId) = {}

\* Some record is stored and every stored record is 'ok' under tag
AllOk(tag) ==
    /\ DOMAIN comments # {}
    /\ \A id \in DOMAIN comments : StatusOf(analysis, tag, id) = "ok"

\* C3: when a run returns and every stored record is 'ok' under its tag,
\* fetch_candidates for that tag with retry_errors=False is empty, whatever the
\* limit, the subreddit filter and include_skipped.
C3_NothingLeftAfterAllOk ==
    (pc = "returned" /\ AllOk(cfg.analysis_tag)) =>
        \A limit \in Limits, subreddits \in SubredditArgs, include_skipped \in BOOLEAN :
            fetch_candidates(comments, analysis, cfg.analysis_tag, limit, FALSE,
                             subreddits, include_skipped) = {<< >>}

C3_Witness ==
    /\ pc = "returned"
    /\ hist.step = "complete"
    /\ Cardinality(DOMAIN comments) >= 2
    /\ AllOk(cfg.analysis_tag)
    /\ hist.invoked >= 2

\* The status row and the mentions of the current candidate are those the
\* store held when the run started
CurrentUntouched ==
    /\ StatusOf(analysis, cfg.analysis_tag, CurrentId)
          = StatusOf(hist.start.analysis, cfg.analysis_tag, CurrentId)
    /\ \A k \in DOMAIN analysis :
          k = <<cfg.analysis_tag, CurrentId>> => analysis[k] = hist.start.analysis[k]
    /\ MentionsOf(mentions, cfg.analysis_tag, CurrentId)
          = MentionsOf(hist.start.mentions, cfg.analysis_tag, CurrentId)

\* Every candidate passed that has a body has its row in the committed store
EarlierRowsCommitted ==
    \A i \in Passed :
        TextOf[candidates[i][2]] # "" =>
            StatusOf(disk.analysis, cfg.analysis_tag, candidates[i][1]) \in {"ok", "error"}

\* No call was made for a candidate after the current one
NoLaterCandidate == \A i \in hist.attempted : i <= idx

\* The state part of C8
C8_State ==
    /\ (Failed /\ hist.err.cls \in {"AuthenticationError", "PermissionDeniedError"})
          => pc = "raised"
    /\ pc = "raised" =>
          /\ Failed
          /\ hist.err.cls \in {"AuthenticationError", "PermissionDeniedError"}
          /\ outcome.stopped_reason = None
          /\ CurrentUntouched
          /\ NoLaterCandidate
          /\ Committed
          /\ EarlierRowsCommitted

\* C8: an AuthenticationError or PermissionDeniedError leaves analyze() as an
\* exception, with no RunOutcome returned and no stop reason set; the current
\* candidate's status row and mentions are as they were, no later candidate is
\* attempted, and what the run wrote for the earlier candidates is committed.
C8_FatalAuthPropagates ==
    /\ []C8_State
    /\ [][pc = "raised" => pc' \in {"raised", "idle"} \/ hist'.step = "start"]_vars

C8_Witness ==
    /\ pc = "raised"
    /\ idx = 2
    /\ StatusOf(disk.analysis, cfg.analysis_tag, candidates[1][1]) = "ok"
    /\ MentionsOf(disk.mentions, cfg.analysis_tag, candidates[1][1]) # {}

\* The messages of Errors that tell an exhausted quota
QuotaMessages == {"Error code: 429 - insufficient_quota", "You Exceeded your current Quota"}

\* The state part of C9
C9_State ==
    /\ (Failed /\ hist.err.cls = "RateLimitError" /\ hist.err.msg \in QuotaMessages)
          => pc = "returned"
    /\ (pc = "returned" /\ Failed) =>
          /\ hist.err.cls = "RateLimitError"
          /\ hist.err.msg \in QuotaMessages
          /\ <<cfg.analysis_tag, CurrentId>> \in DOMAIN disk.analysis
          /\ disk.analysis[<<cfg.analysis_tag, CurrentId>>]
                = [status |-> "error", error |-> hist.err.cls \o ": " \o hist.err.msg]
          /\ Committed
          /\ outcome.stopped_reason = "quota"
          /\ idx \in hist.attempted
          /\ NoLaterCandidate

\* C9: a RateLimitError whose message tells an exhausted quota writes an
\* 'error' row with the failure's type and message for the current candidate,
\* commits, attempts no later candidate and returns with stop reason "quota".
C9_QuotaStopsRun ==
    /\ []C9_State
    /\ [][pc = "returned" => pc' \in {"returned", "idle"} \/ hist'.step = "start"]_vars

C9_Witness ==
    /\ pc = "returned"
    /\ Failed
    /\ idx = 2
    /\ idx < Len(candidates)
    /\ StatusOf(disk.analysis, cfg.analysis_tag, candidates[1][1]) = "ok"

(***************************************************************************)
(* SpecTimed: runs with pacing and a deadline, every kind of failure, calls *)
(* that take time, and up to MaxAttempt retries of one candidate.  The     *)
(* keyword shortcut and the validation are off, as ticker.py sets them.    *)
(***************************************************************************)
InitTimed == Init /\ ~shortcut /\ ~validation

\* One answer of the extraction service
OneRaw == {raw \in RawOutputs : Len(raw) = 1}

NextTimed ==
    \/ \E r \in Incoming : SaveComment(r)
    \/ \E rpm \in {0, PacedRpm}, timeout_seconds \in {NoSeconds, 0, TimeoutSeconds} :
          AnalyzeStart("t1", Cardinality(Ids), FALSE, [none |-> TRUE, names |-> << >>],
                       rpm, timeout_seconds)
    \/ Complete
    \/ ItemCancel
    \/ ItemTimeout
    \/ ItemBlank
    \/ ItemBegin
    \/ AttemptCancel
    \/ AttemptTimeout
    \/ \E raw \in OneRaw, d \in CallSeconds : CallOk(raw, d)
    \/ \E d \in CallSeconds : CallInterrupted(d)
    \/ \E e \in Errors, d \in CallSeconds : CallFatal(e, d)
    \/ \E e \in Errors, d \in CallSeconds : CallQuota(e, d)
    \/ \E e \in Errors, d \in CallSeconds : CallTransient(e, d, MaxAttempt)
    \/ \E e \in Errors, d \in CallSeconds : CallPermanent(e, d)

SpecTimed == InitTimed /\ [][NextTimed]_vars

(***************************************************************************)
(* Properties of the runs of SpecTimed                                     *)
(***************************************************************************)
\* The four categories, as the kinds of failure they name
MatchesFatalAuth(e) == e.cls \in {"AuthenticationError", "PermissionDeniedError"}

MatchesQuotaExhausted(e) == e.cls = "RateLimitError" /\ e.msg \in QuotaMessages

MatchesTransient(e) ==
    e.cls \in {"RateLimitError", "APITimeoutError", "APIConnectionError", "InternalServerError"}

\* The first category that matches, in the order FatalAuth, QuotaExhausted,
\* Transient, PermanentItemError, named by what the run does for it
FirstMatch(e) ==
    IF MatchesFatalAuth(e) THEN "raise"
    ELSE IF MatchesQuotaExhausted(e) THEN "quota"
    ELSE IF MatchesTransient(e) THEN "retry"
    ELSE "error"

\* C7: every failure of an extraction call is handled as exactly one of
\* FatalAuth, QuotaExhausted, Transient and PermanentItemError, the first that
\* matches in that order; a RateLimitError whose message tells an exhausted
\* quota stops the run with reason "quota" and is not retried.
C7_FirstMatchDecides ==
    Failed =>
        /\ hist.step = FirstMatch(hist.err)
        /\ hist.step = "raise" => pc = "raised"
        /\ hist.step = "quota" => pc = "returned" /\ outcome.stopped_reason = "quota"
        /\ hist.step = "retry" =>
              /\ pc = "attempt"
              /\ attempt >= 1
              /\ StatusOf(analysis, cfg.analysis_tag, CurrentId) = NULL
        /\ hist.step = "error" =>
              /\ pc = "item"
              /\ StatusOf(analysis, cfg.analysis_tag, candidates[idx - 1][1]) = "error"

C7_Witness ==
    /\ hist.step = "quota"
    /\ hist.err = [cls |-> "RateLimitError", msg |-> "You Exceeded your current Quota"]
    /\ pc = "returned"
    /\ Len(hist.waits) >= 1

\* min(2^k, 20)
ExpectedWait(k) == IF 2 ^ k < 20 THEN 2 ^ k ELSE 20

\* The state part and the step part of C10
C10_State ==
    /\ \A i \in 1..Len(hist.waits) : hist.waits[i] = ExpectedWait(i - 1)
    /\ pc = "attempt" => Len(hist.waits) = attempt

C10_Step ==
    /\ (pc = "item" /\ pc' = "attempt") => attempt' = 0
    /\ (pc = "attempt" /\ hist'.step = "retry" /\ hist'.invoked = hist.invoked + 1) =>
          /\ pc' = "attempt"
          /\ idx' = idx
          /\ candidates' = candidates
          /\ analysis' = analysis
          /\ mentions' = mentions
          /\ attempt' = attempt + 1
          /\ hist'.waits = Append(hist.waits, ExpectedWait(attempt))
          /\ (deadline = NoSeconds /\ cfg.interval = 0) =>
                \E d \in CallSeconds : now' = now + d + ExpectedWait(attempt)

\* C10: a transient failure is retried on the same candidate; the wait asked
\* for after the k-th consecutive transient failure (k from 0) is
\* min(2^k, 20) seconds: 1, 2, 4, 8, 16, 20, 20, ...; the attempt counter
\* starts at 0 for each candidate, and no count of attempts ends the retries.
C10_TransientBackoff == []C10_State /\ [][C10_Step]_vars

C10_Witness ==
    /\ pc = "attempt"
    /\ idx = 2
    /\ hist.invoked >= 9
    /\ hist.waits = <<1, 2, 4, 8, 16, 20, 20>>

(***************************************************************************)
(* SpecSel: fetch_candidates called with every combination of its          *)
(* arguments on stores that save_comment and the mark_analyzed_* functions *)
(* can build.                                                              *)
(***************************************************************************)
RECURSIVE SaveAll(_, _)
SaveAll(cs, rows) ==
    IF rows = << >> THEN cs ELSE SaveAll(save_comment(cs, Head(rows)), Tail(rows))

\* The comment tables after saving some of the incoming comments in some order
SelComments ==
    {SaveAll(EmptyFn, b) :
        b \in {x \in UNION {[1..n -> Incoming] : n \in 0..Cardinality(Ids)} :
                  \A i, j \in DOMAIN x : i # j => x[i] # x[j]}}

RECURSIVE MarkAll(_, _, _, _)
\* The status table after marking, under tag, each comment id of todo as f[id] says
MarkAll(an, tag, f, todo) ==
    IF todo = {} THEN an
    ELSE LET id == CHOOSE x \in todo : TRUE
             an1 == CASE f[id] = "ok"      -> mark_analyzed_ok(an, tag, id)
                      [] f[id] = "skipped" -> mark_analyzed_skipped(an, tag, id)
                      [] f[id] = "error"   -> mark_analyzed_error(an, tag, id,
                                                  "BadRequestError: insufficient_quota")
                      [] OTHER             -> an
         IN MarkAll(an1, tag, f, todo \ {id})

\* The status tables over the comments cs: under t1 every record has any
\* status or none, under t2 all records have the same status or none
SelAnalysis(cs) ==
    {MarkAll(MarkAll(EmptyFn, "t1", f, DOMAIN cs), "t2", [id \in DOMAIN cs |-> g], DOMAIN cs) :
        f \in [DOMAIN cs -> Statuses \cup {NULL}], g \in Statuses \cup {NULL}}

InitSel ==
    /\ comments \in SelComments
    /\ analysis \in SelAnalysis(comments)
    /\ mentions = EmptyFn
    /\ disk = Store(comments, analysis, mentions)
    /\ shortcut = FALSE
    /\ validation = FALSE
    /\ yf_cache = [t \in Tickers |-> "unset"]
    /\ pc = "idle"
    /\ cfg = NoCfg
    /\ candidates = << >>
    /\ idx = 1
    /\ attempt = 0
    /\ outcome = NoOutcome
    /\ now = 0
    /\ deadline = NoSeconds
    /\ next_call_at = 0
    /\ hist = NoHist
    /\ ops = 0
    /\ runs = 0
    /\ limiter = NoLimiter
    /\ call = NoCall

\* One call of db.fetch_candidates; the store is only read
FetchCandidates(tag, limit, retry_errors, subreddits, include_skipped) ==
    /\ pc = "idle"
    /\ \E batch \in fetch_candidates(comments, analysis, tag, limit, retry_errors,
                                     subreddits, include_skipped) :
          candidates' = batch
    /\ pc' = "fetched"
    /\ hist' = [NoHist EXCEPT !.step = "fetch",
                              !.args = [analysis_tag |-> tag, limit |-> limit,
                                        retry_errors |-> retry_errors,
                                        subreddits |-> subreddits,
                                        include_skipped |-> include_skipped]]
    /\ UNCHANGED <<comments, analysis, mentions, disk, shortcut, validation, yf_cache, cfg,
                   idx, attempt, outcome, now, deadline, next_call_at, ops, runs, limiter, call>>

NextSel ==
    \E tag \in Tags, limit \in Limits, retry_errors \in BOOLEAN,
       subreddits \in SubredditArgs, include_skipped \in BOOLEAN :
        FetchCandidates(tag, limit, retry_errors, subreddits, include_skipped)

SpecSel == InitSel /\ [][NextSel]_vars

(***************************************************************************)
(* Properties of the calls of SpecSel                                      *)
(***************************************************************************)
Fetched == hist.step = "fetch"

\* The ids a call returned
ReturnedIds == {candidates[i][1] : i \in 1..Len(candidates)}

\* The mode's predicate, on the status the record has under the tag
ModeSelects(status, retry_errors, include_skipped) ==
    CASE status = NULL      -> TRUE
      [] status = "ok"      -> FALSE
      [] status = "error"   -> retry_errors
      [] status = "skipped" -> include_skipped

\* The subreddit filter: none, or an empty one, lets every record pass
PassesFilter(id, subreddits) ==
    \/ subreddits.none
    \/ Len(subreddits.names) = 0
    \/ comments[id].subreddit \in {subreddits.names[i] : i \in 1..Len(subreddits.names)}

\* The records the call's arguments ask for
Wanted ==
    {id \in DOMAIN comments :
        /\ ModeSelects(StatusOf(analysis, hist.args.analysis_tag, id),
                       hist.args.retry_errors, hist.args.include_skipped)
        /\ PassesFilter(id, hist.args.subreddits)}

\* C4: whatever retry_errors, include_skipped and the subreddit filter are,
\* fetch_candidates(tag) returns no record whose status under that tag is 'ok'.
C4_OkNeverReturned ==
    Fetched => \A id \in ReturnedIds : StatusOf(analysis, hist.args.analysis_tag, id) # "ok"

C4_Witness ==
    /\ Fetched
    /\ hist.args.retry_errors
    /\ hist.args.include_skipped
    /\ Len(candidates) = 2
    /\ \E id \in DOMAIN comments :
          /\ StatusOf(analysis, hist.args.analysis_tag, id) = "ok"
          /\ PassesFilter(id, hist.args.subreddits)

\* C5: before the limit cuts it, the result is exactly the records the mode
\* selects (among those the subreddit filter lets pass): no status row under
\* the tag; or status 'error' when retry_errors is set; or status 'skipped' when
\* include_skipped is set.  Each is returned with its stored body.
C5_ExactlyTheModesRecords ==
    Fetched =>
        /\ ReturnedIds \subseteq Wanted
        /\ (hist.args.limit < 0 \/ hist.args.limit >= Cardinality(Wanted)) => ReturnedIds = Wanted
        /\ \A i \in 1..Len(candidates) : candidates[i][2] = comments[candidates[i][1]].body

C5_Witness ==
    /\ Fetched
    /\ hist.args.retry_errors
    /\ ~hist.args.include_skipped
    /\ hist.args.limit = Cardinality(Ids)
    /\ \E id \in ReturnedIds : StatusOf(analysis, hist.args.analysis_tag, id) = "error"
    /\ \E id \in DOMAIN comments \ ReturnedIds :
          StatusOf(analysis, hist.args.analysis_tag, id) = "skipped"
    /\ \E id \in ReturnedIds : StatusOf(analysis, hist.args.analysis_tag, id) = NULL

\* Newest first, no id twice, and nothing left out is newer than anything returned
NewestFirst ==
    /\ \A i, j \in 1..Len(candidates) :
          i < j => comments[candidates[i][1]].created_utc >= comments[candidates[j][1]].created_utc
    /\ \A i, j \in 1..Len(candidates) : i # j => candidates[i][1] # candidates[j][1]
    /\ \A id \in ReturnedIds, out \in Wanted \ ReturnedIds :
          comments[id].created_utc >= comments[out].created_utc

\* C6 as stated: for every limit the result has at most `limit` pairs, newest
\* first, the `limit` most recently created of the wanted records, no id twice.
C6_AtMostLimitForEveryLimit ==
    Fetched =>
        /\ Len(candidates) <= hist.args.limit
        /\ ReturnedIds \subseteq Wanted
        /\ NewestFirst

\* C6 amended: for every limit >= 0 the result has min(limit, number wanted)
\* pairs; for a negative limit it has all the wanted records; in both cases
\* newest first, nothing left out newer than anything returned, no id twice.
C6_LimitMostRecent ==
    Fetched =>
        /\ hist.args.limit >= 0 =>
              Len(candidates) = Min(hist.args.limit, Cardinality(Wanted))
        /\ hist.args.limit < 0 => ReturnedIds = Wanted
        /\ ReturnedIds \subseteq Wanted
        /\ NewestFirst

C6_Witness ==
    /\ Fetched
    /\ hist.args.limit = 2
    /\ Cardinality(Wanted) = 3
    /\ Len(candidates) = 2
    /\ \E out \in Wanted \ ReturnedIds :
          comments[out].created_utc = comments[candidates[2][1]].created_utc

(***************************************************************************)
(* Further properties of the runs of Spec                                  *)
(***************************************************************************)
\* A step of the run that is an extraction call
CallStep == pc = "attempt" /\ hist'.invoked = hist.invoked + 1

\* The state part of C11: after a permanent failure the run is at the next
\* candidate and the failed one has its committed 'error' row
C11_State ==
    hist.step = "error" =>
        /\ pc = "item"
        /\ idx >= 2
        /\ ~MatchesFatalAuth(hist.err)
        /\ ~MatchesQuotaExhausted(hist.err)
        /\ ~MatchesTransient(hist.err)
        /\ <<cfg.analysis_tag, candidates[idx - 1][1]>> \in DOMAIN disk.analysis
        /\ disk.analysis[<<cfg.analysis_tag, candidates[idx - 1][1]>>]
              = [status |-> "error", error |-> hist.err.cls \o ": " \o hist.err.msg]
        /\ Committed

\* The step part of C11: the failing call adds one to errors and moves to the
\* next candidate; a run never goes back to a candidate, and a call is always
\* for the candidate the run is at, so the failed one is not attempted again
C11_Step ==
    /\ (CallStep /\ hist'.step = "error") =>
          /\ outcome'.errors = outcome.errors + 1
          /\ outcome'.analyzed = outcome.analyzed
          /\ outcome'.stopped_reason = outcome.stopped_reason
          /\ idx' = idx + 1
          /\ pc' = "item"
          /\ mentions' = mentions
    /\ (CallStep /\ hist'.step # "error") => outcome'.errors = outcome.errors
    /\ CallStep => hist'.attempted = hist.attempted \cup {idx}
    /\ (Running /\ hist'.step # "start" /\ hist' # NoHist) =>
          /\ idx' >= idx
          /\ candidates' = candidates

\* C11: a failure that is not FatalAuth, QuotaExhausted or Transient writes an
\* 'error' status row with the failure's description for the candidate, adds
\* exactly one to the errors counter, is not retried, and the run goes on to
\* the next candidate.
C11_PermanentErrorMovesOn == []C11_State /\ [][C11_Step]_vars

C11_Witness ==
    /\ hist.step = "error"
    /\ outcome.errors = 1
    /\ idx = 2
    /\ idx <= Len(candidates)
    /\ hist.invoked = 1

(***************************************************************************)
(* Further properties of the runs of SpecTimed                             *)
(***************************************************************************)
\* The per-minute cap of a paced run (the modelled caps divide 60)
Cap == 60 \div cfg.interval

\* The calls started in the 60 seconds that end with the start of call i
StartedWithin60(i) ==
    {j \in 1..Len(hist.starts) :
        hist.starts[j] > hist.starts[i] - 60 /\ hist.starts[j] <= hist.starts[i]}

\* C12: with a per-minute cap N > 0, in every run, with or without a deadline,
\* the extraction attempts started within any trailing 60-second interval are
\* never more than N (the gate runs before every attempt, retries included).
C12_AtMostCapPerMinute ==
    cfg.interval > 0 =>
        \A i \in 1..Len(hist.starts) : Cardinality(StartedWithin60(i)) <= Cap

\* What holds of C12: in the runs that have no deadline
C12_AtMostCapWithoutDeadline ==
    (cfg.interval > 0 /\ deadline = NoSeconds) =>
        \A i \in 1..Len(hist.starts) : Cardinality(StartedWithin60(i)) <= Cap

(***************************************************************************)
(* Specification of a RateLimiter alone: constructed with any rate, then   *)
(* wait() called by one thread, at once or after some time                 *)
(***************************************************************************)
\* The rates a limiter is constructed with
Rates == (0 - 1)..MaxPerMinute

\* The times that pass between two calls of wait() that do not follow each
\* other at once: half a minute, just over a minute
Gaps == {Window \div 2, Window + 1}

InitLimiter ==
    /\ comments = EmptyFn
    /\ analysis = EmptyFn
    /\ mentions = EmptyFn
    /\ disk = Store(EmptyFn, EmptyFn, EmptyFn)
    /\ shortcut = FALSE
    /\ validation = FALSE
    /\ yf_cache = [t \in Tickers |-> "unset"]
    /\ pc = "idle"
    /\ cfg = NoCfg
    /\ candidates = << >>
    /\ idx = 1
    /\ attempt = 0
    /\ outcome = NoOutcome
    /\ now = 0
    /\ deadline = NoSeconds
    /\ next_call_at = 0
    /\ hist = NoHist
    /\ ops = 0
    /\ runs = 0
    /\ limiter \in {RateLimiter(n) : n \in Rates}
    /\ call = NoCall

Others ==
    <<comments, analysis, mentions, disk, shortcut, validation, yf_cache, pc, cfg,
      candidates, idx, attempt, outcome, now, deadline, next_call_at, hist, ops, runs,
      call>>

\* limiter.wait(), which returns at once or after its sleep
Wait(late) ==
    /\ limiter.calls < MaxWaits
    /\ late = 0 \/ Len(Evict(limiter.times, limiter.clock)) >= limiter.max_per_minute
    /\ limiter' = wait(limiter, late)
    /\ UNCHANGED Others

\* Time passes between two calls
Elapse(gap) ==
    /\ limiter.calls < MaxWaits
    /\ ~limiter.rested
    /\ limiter' = [limiter EXCEPT !.clock = @ + gap, !.rested = TRUE]
    /\ UNCHANGED Others

NextLimiter ==
    \/ \E late \in 0..MaxOversleep : Wait(late)
    \/ \E gap \in Gaps : Elapse(gap)

SpecLimiter == InitLimiter /\ [][NextLimiter]_vars

\* The window never holds more timestamps than the limiter's rate, which is
\* the configured rate or 1 when that is below 1
C13_State ==
    /\ limiter.max_per_minute >= 1
    /\ limiter.max_per_minute = (IF limiter.configured < 1 THEN 1 ELSE limiter.configured)
    /\ Len(limiter.times) <= limiter.max_per_minute
    /\ (limiter.calls > 0 /\ ~limiter.rested) =>
           /\ limiter.times[Len(limiter.times)] = limiter.clock
           /\ \A i \in 1..Len(limiter.times) : limiter.clock - limiter.times[i] <= Window

\* A call of wait(): it blocks exactly when the timestamps of the last 60
\* seconds are as many as the rate, and then returns only when the oldest of
\* them is more than 60 seconds old
C13_Step ==
    limiter'.calls = limiter.calls + 1 =>
        LET kept == Evict(limiter.times, limiter.clock)
        IN  /\ limiter'.blocked = (Len(kept) >= limiter.max_per_minute)
            /\ ~limiter'.blocked => limiter'.clock = limiter.clock
            /\ limiter'.blocked =>
                   /\ limiter'.clock - Head(kept) > Window
                   /\ limiter'.slept > 0
            /\ (limiter.calls = limiter.max_per_minute /\ limiter.clock = 0) =>
                   /\ limiter'.blocked
                   /\ limiter'.clock > Window

\* C13: a RateLimiter of N calls per 60 seconds (a rate below 1 counts as 1)
\* makes the (N+1)-th of N+1 immediate calls of wait() block until the oldest
\* timestamp is more than 60 seconds old, and after every wait() its window
\* holds at most N timestamps.
C13_WindowHoldsAtMostN == []C13_State /\ [][C13_Step]_vars

\* N+1 calls in immediate succession on a limiter of rate N = 2: the third
\* slept a minute and a quarter of a second
C13_Witness ==
    /\ limiter.max_per_minute = 2
    /\ limiter.calls = 3
    /\ limiter.blocked
    /\ limiter.slept = Window + Margin
    /\ limiter.times = <<Window + Margin>>

(***************************************************************************)
(* Further properties of the runs of Spec                                  *)
(***************************************************************************)
\* A step of the run that moves past the current candidate without a call
PassStep == pc = "item" /\ idx' = idx + 1

\* The shortcut's step: an 'ok' row under the run's tag, no mention row
\* written, the service not invoked
ShortcutStep ==
    /\ StatusOf(analysis', cfg.analysis_tag, CurrentId) = "ok"
    /\ mentions' = mentions
    /\ MentionsOf(mentions', cfg.analysis_tag, CurrentId) = {}
    /\ outcome'.analyzed_model_calls = outcome.analyzed_model_calls
    /\ outcome'.analyzed = outcome.analyzed + 1
    /\ hist'.invoked = hist.invoked

C14_Step ==
    /\ (PassStep /\ CurrentText # "") =>
           /\ shortcut /\ ~has_finance_hint(CurrentText)
           /\ ShortcutStep
    /\ (pc = "item" /\ pc' = "attempt") =>
           /\ CurrentText # ""
           /\ ~shortcut \/ has_finance_hint(CurrentText)
           /\ idx' = idx
    /\ (pc = "item" /\ idx <= Len(candidates) /\ CurrentText # "" /\ Running')  =>
           IF shortcut /\ ~has_finance_hint(CurrentText)
           THEN PassStep
           ELSE pc' = "attempt"
    /\ (pc = "attempt" /\ idx' = idx + 1) => hist'.invoked = hist.invoked + 1

\* The claim's example of a vocabulary term, and a body without one
C14_Vocabulary ==
    /\ has_finance_hint("buying")
    /\ has_finance_hint("Buy TSLA")
    /\ ~has_finance_hint("TSLA moon")

\* C14: with the keyword shortcut enabled a non-blank body without a
\* vocabulary term gets an 'ok' row, no mention rows and no call of the
\* service (analyzed_model_calls unchanged), and a body with a vocabulary
\* term such as 'buying' is sent to the service; with the shortcut disabled
\* every non-blank candidate is sent to the service.
C14_ShortcutSkipsTheService == []C14_Vocabulary /\ [][C14_Step]_vars

\* A run with the shortcut that has passed "TSLA moon" without a call
C14_Witness ==
    /\ shortcut
    /\ hist.step = "shortcut"
    /\ hist.invoked = 0
    /\ outcome.analyzed = 1
    /\ outcome.analyzed_model_calls = 0
    /\ candidates[idx - 1][2] = "TSLA moon"
    /\ StatusOf(analysis, cfg.analysis_tag, candidates[idx - 1][1]) = "ok"

(***************************************************************************)
(* Specification of the write functions of db.py alone: a store with the   *)
(* incoming comments, then save_mentions and mark_analyzed_* called in any *)
(* order with any arguments, on one connection                             *)
(***************************************************************************)
\* The largest number of write calls
MaxWrites == 3

\* The records written to
WrittenIds == {"c1", "c2"}

\* The extraction results written: what analyze_comment returns
Results == {analyze_comment(raw) : raw \in RawOutputs}

\* The error details written: f"{type(e).__name__}: {e}"
Details == {ErrorText(e) : e \in {x \in Errors : x.cls \in {"BadRequestError", "AttributeError"}}}

InitDb ==
    /\ comments \in {cs \in SelComments : DOMAIN cs = Ids}
    /\ analysis = EmptyFn
    /\ mentions = EmptyFn
    /\ disk = Store(comments, EmptyFn, EmptyFn)
    /\ shortcut = FALSE
    /\ validation = FALSE
    /\ yf_cache = [t \in Tickers |-> "unset"]
    /\ pc = "idle"
    /\ cfg = NoCfg
    /\ candidates = << >>
    /\ idx = 1
    /\ attempt = 0
    /\ outcome = NoOutcome
    /\ now = 0
    /\ deadline = NoSeconds
    /\ next_call_at = 0
    /\ hist = NoHist
    /\ ops = 0
    /\ runs = 0
    /\ limiter = NoLimiter
    /\ call = NoCall

\* The status row of (tag, id), or NoRow
RowAt(an, tag, id) == IF <<tag, id>> \in DOMAIN an THEN an[<<tag, id>>] ELSE NoRow

\* The symbols of the mention rows of (tag, id)
SymbolsAt(ms, tag, id) == {k[3] : k \in {x \in DOMAIN ms : x[1] = tag /\ x[2] = id}}

\* The history of a write call: its name and arguments, the status row and
\* the symbols it found, and how many times in a row this call was made
Written(fn, tag, id, rows, error) ==
    LET same == /\ hist.write.fn = fn
                /\ hist.write.analysis_tag = tag
                /\ hist.write.comment_id = id
                /\ hist.write.rows = rows
                /\ hist.write.error = error
    IN  [NoHist EXCEPT !.step = "write",
                       !.write = [fn |-> fn, analysis_tag |-> tag, comment_id |-> id,
                                  rows |-> rows, error |-> error,
                                  replaced |-> RowAt(analysis, tag, id),
                                  before |-> SymbolsAt(mentions, tag, id),
                                  times |-> IF same THEN hist.write.times + 1 ELSE 1]]

\* What a write call leaves alone: the comments, the committed store (the
\* functions do not commit), and everything outside the store
WriteFrame(h) ==
    /\ ops < MaxWrites
    /\ ops' = ops + 1
    /\ hist' = h
    /\ UNCHANGED <<comments, disk, shortcut, validation, yf_cache, pc, cfg, candidates, idx,
                   attempt, outcome, now, deadline, next_call_at, runs, limiter, call>>

\* db.save_mentions
SaveMentions(tag, id, rows) ==
    /\ mentions' = save_mentions(mentions, tag, id, rows)
    /\ UNCHANGED analysis
    /\ WriteFrame(Written("save_mentions", tag, id, rows, ""))

\* pipeline.py 317-324: db.save_mentions, then db.mark_analyzed_ok
WriteResult(tag, id, rows) ==
    /\ mentions' = save_mentions(mentions, tag, id, rows)
    /\ analysis' = mark_analyzed_ok(analysis, tag, id)
    /\ WriteFrame(Written("write_result", tag, id, rows, ""))

\* db.mark_analyzed_ok
MarkOk(tag, id) ==
    /\ analysis' = mark_analyzed_ok(analysis, tag, id)
    /\ UNCHANGED mentions
    /\ WriteFrame(Written("mark_analyzed_ok", tag, id, EmptyFn, ""))

\* db.mark_analyzed_skipped
MarkSkippedRow(tag, id) ==
    /\ analysis' = mark_analyzed_skipped(analysis, tag, id)
    /\ UNCHANGED mentions
    /\ WriteFrame(Written("mark_analyzed_skipped", tag, id, EmptyFn, ""))

\* db.mark_analyzed_error
MarkError(tag, id, error) ==
    /\ analysis' = mark_analyzed_error(analysis, tag, id, error)
    /\ UNCHANGED mentions
    /\ WriteFrame(Written("mark_analyzed_error", tag, id, EmptyFn, error))

NextDb ==
    \E tag \in Tags, id \in WrittenIds :
        \/ \E rows \in Results : SaveMentions(tag, id, rows)
        \/ \E rows \in Results : WriteResult(tag, id, rows)
        \/ MarkOk(tag, id)
        \/ MarkSkippedRow(tag, id)
        \/ \E error \in Details : MarkError(tag, id, error)

SpecDb == InitDb /\ [][NextDb]_vars

\* The last write call
W == hist.write

\* After a result is written its record has the 'ok' row and, for every
\* symbol of the result, the mention row with the result's sentiment
C15_State ==
    W.fn = "write_result" =>
        /\ RowAt(analysis, W.analysis_tag, W.comment_id) = [status |-> "ok", error |-> NULL]
        /\ \A t \in DOMAIN W.rows :
              /\ <<W.analysis_tag, W.comment_id, t>> \in DOMAIN mentions
              /\ mentions[<<W.analysis_tag, W.comment_id, t>>] = W.rows[t]

\* Writing again what was just written changes no key and no sentiment
C15_Step ==
    (hist'.write.fn = "write_result" /\ hist'.write.times > 1) =>
        /\ mentions' = mentions
        /\ analysis' = analysis

\* C15: writing the same extraction result for the same (tag, record-id) any
\* number of times (save_mentions, then mark_analyzed_ok) leaves the keys and
\* sentiments that writing it once leaves: one mention row for each (tag,
\* record-id, symbol) and one status row for (tag, record-id).
C15_RewritingChangesNothing == []C15_State /\ [][C15_Step]_vars

\* The same result with a symbol written three times in a row
C15_Witness ==
    /\ W.fn = "write_result"
    /\ W.times = 3
    /\ DOMAIN W.rows # {}
    /\ SymbolsAt(mentions, W.analysis_tag, W.comment_id) = DOMAIN W.rows

\* The row a mark_analyzed_* call writes
RowWritten ==
    IF W.fn = "mark_analyzed_error"
    THEN [status |-> "error", error |-> Truncate(W.error, ErrorDetailMax)]
    ELSE IF W.fn = "mark_analyzed_skipped" THEN [status |-> "skipped", error |-> NULL]
    ELSE [status |-> "ok", error |-> NULL]

C16_State ==
    /\ \A k \in DOMAIN analysis :
          /\ analysis[k].status \in Statuses
          /\ analysis[k].error # NULL => analysis[k].status = "error"
    /\ W.fn \in {"mark_analyzed_ok", "mark_analyzed_skipped", "mark_analyzed_error",
                 "write_result"} =>
          RowAt(analysis, W.analysis_tag, W.comment_id) = RowWritten

\* A write of a status row leaves the rows of every other (tag, record-id)
C16_Step ==
    hist'.step = "write" =>
        \A k \in DOMAIN analysis :
            k # <<hist'.write.analysis_tag, hist'.write.comment_id>> =>
                k \in DOMAIN analysis' /\ analysis'[k] = analysis[k]

\* C16: after any sequence of mark_analyzed_ok / mark_analyzed_skipped /
\* mark_analyzed_error calls (tag, record-id) has at most one status row, its
\* status is ok, skipped or error, and it is the last write: a later 'ok'
\* replaces an earlier 'error' and clears the error detail, and the error
\* detail is non-null only when the status is 'error'.
C16_LastWriteWins == []C16_State /\ [][C16_Step]_vars

\* An 'ok' written over an 'error' row
C16_Witness ==
    /\ W.fn = "mark_analyzed_ok"
    /\ W.replaced.status = "error"
    /\ W.replaced.error # NULL
    /\ RowAt(analysis, W.analysis_tag, W.comment_id) = [status |-> "ok", error |-> NULL]

\* C17: after save_mentions writes an extraction result for (tag, record-id)
\* the mention rows of (tag, record-id) are the symbols of that result and no
\* others: no symbol of an earlier, different extraction remains.
C17_MentionsAreTheNewResult ==
    W.fn \in {"save_mentions", "write_result"} =>
        SymbolsAt(mentions, W.analysis_tag, W.comment_id) = DOMAIN W.rows

\* What holds of C17: the rows are those of the new result and those the
\* record had before
C17_MentionsAreNewAndOld ==
    W.fn \in {"save_mentions", "write_result"} =>
        SymbolsAt(mentions, W.analysis_tag, W.comment_id) = DOMAIN W.rows \cup W.before

(***************************************************************************)
(* Specification of analyze_comment's merge alone: the service answers any *)
(* short list of mentions, analyze_comment turns it into its rows          *)
(***************************************************************************)
\* The largest number of mentions in one answer of the service
MaxMentions == 3

\* The raw symbols of the answers: two spellings of one ticker, a share
\* class, and a symbol that normalizes to the empty string
RawSymbols == {"TSLA", "$tsla", "BRK-B", "$"}

\* parsed.mentions: every list of at most MaxMentions (ticker, sentiment)
Answers == UNION {[1..n -> RawSymbols \X Sentiments] : n \in 0..MaxMentions}

InitMerge ==
    /\ comments = EmptyFn
    /\ analysis = EmptyFn
    /\ mentions = EmptyFn
    /\ disk = Store(EmptyFn, EmptyFn, EmptyFn)
    /\ shortcut = FALSE
    /\ validation = FALSE
    /\ yf_cache = [t \in Tickers |-> "unset"]
    /\ pc = "idle"
    /\ cfg = NoCfg
    /\ candidates = << >>
    /\ idx = 1
    /\ attempt = 0
    /\ outcome = NoOutcome
    /\ now = 0
    /\ deadline = NoSeconds
    /\ next_call_at = 0
    /\ hist = NoHist
    /\ ops = 0
    /\ runs = 0
    /\ limiter = NoLimiter
    /\ call \in {[NoCall EXCEPT !.fn = "analyze_comment", !.input = raw] : raw \in Answers}

\* What a call of a pure function leaves alone
Pure ==
    UNCHANGED <<comments, analysis, mentions, disk, shortcut, validation, yf_cache, pc, cfg,
                candidates, idx, attempt, outcome, now, deadline, next_call_at, hist, ops,
                runs, limiter>>

\* analyze_comment on the answer
AnalyzeComment ==
    /\ call.fn = "analyze_comment"
    /\ call.applied = 0
    /\ call' = [call EXCEPT !.output = analyze_comment(call.input), !.applied = 1]
    /\ Pure

NextMerge == AnalyzeComment

SpecMerge == InitMerge /\ [][NextMerge]_vars

\* The occurrences of the normalized symbol t in the answer, and their sentiments
Occurrences(raw, t) == {i \in 1..Len(raw) : normalize_ticker(raw[i][1]) = t}

SentimentsOf(raw, t) == {raw[i][2] : i \in Occurrences(raw, t)}

\* C18: for every list of (raw symbol, sentiment) mentions analyze_comment
\* returns one entry for each distinct non-empty normalized symbol, with the
\* common sentiment when all its occurrences agree and 'neutral' when any two
\* differ, whatever their order and number; a raw symbol that normalizes to
\* the empty string gives no entry.
C18_MergedBySymbol ==
    (call.fn = "analyze_comment" /\ call.applied = 1) =>
        LET raw == call.input
            out == call.output
        IN  /\ DOMAIN out = {normalize_ticker(raw[i][1]) : i \in 1..Len(raw)} \ {""}
            /\ \A t \in DOMAIN out :
                  IF Cardinality(SentimentsOf(raw, t)) = 1
                  THEN out[t] \in SentimentsOf(raw, t)
                  ELSE out[t] = "neutral"

\* Three occurrences of one symbol under two spellings, two of them
\* agreeing: the entry is 'neutral'
C18_Witness ==
    /\ call.fn = "analyze_comment"
    /\ call.applied = 1
    /\ call.input = << <<"TSLA", "bullish">>, <<"$tsla", "bearish">>, <<"TSLA", "bullish">> >>
    /\ DOMAIN call.output = {"TSLA"}
    /\ call.output["TSLA"] = "neutral"

(***************************************************************************)
(* Specification of normalize_ticker alone: any short string over the      *)
(* characters its steps tell apart, normalized and normalized again        *)
(***************************************************************************)
\* The largest length of the enumerated inputs
MaxLen == 3

\* The largest number of times the function is applied to its own result
MaxPasses == 2

\* A lower-case letter, an upper-case letter, a digit, the characters the
\* steps look for, a space and a character that is dropped
Alphabet == {"a", "B", "1", "$", ":", "-", "/", ".", " ", "!"}

\* The strings of at most n characters of the alphabet
RECURSIVE StringsUpTo(_)
StringsUpTo(n) ==
    IF n = 0 THEN {""}
    ELSE StringsUpTo(n - 1) \cup {s \o c : s \in StringsUpTo(n - 1), c \in Alphabet}

\* Longer inputs: the symbols the service is told to expect, share classes at
\* and beyond the lengths of the pattern, repeated prefixes
LongSymbols ==
    {"$TSLA", "NASDAQ:aapl", "BRK-B", "BRK/B", " nyse:brk.b\n", "$$tsla", "$nyse:$f",
     "A:B:C-D", "ABCDEF-123", "ABCDEFG-1", "ABCDEF-1234", "AB-C-D", "brk -b", "(TSLA)"}

Symbols == StringsUpTo(MaxLen) \cup LongSymbols

InitTicker ==
    /\ comments = EmptyFn
    /\ analysis = EmptyFn
    /\ mentions = EmptyFn
    /\ disk = Store(EmptyFn, EmptyFn, EmptyFn)
    /\ shortcut = FALSE
    /\ validation = FALSE
    /\ yf_cache = [t \in Tickers |-> "unset"]
    /\ pc = "idle"
    /\ cfg = NoCfg
    /\ candidates = << >>
    /\ idx = 1
    /\ attempt = 0
    /\ outcome = NoOutcome
    /\ now = 0
    /\ deadline = NoSeconds
    /\ next_call_at = 0
    /\ hist = NoHist
    /\ ops = 0
    /\ runs = 0
    /\ limiter = NoLimiter
    /\ call \in {[NoCall EXCEPT !.fn = "normalize_ticker", !.input = s, !.output = s] :
                    s \in Symbols}

\* normalize_ticker on the input, then on its own result
NormalizeTicker ==
    /\ call.fn = "normalize_ticker"
    /\ call.applied < MaxPasses
    /\ LET out == normalize_ticker(call.output)
       IN  call' = [call EXCEPT !.output = out,
                                !.first = IF call.applied = 0 THEN out ELSE @,
                                !.applied = @ + 1]
    /\ Pure

NextTicker == NormalizeTicker

SpecTicker == InitTicker /\ [][NextTicker]_vars

\* C19: normalize_ticker is idempotent: normalize_ticker(normalize_ticker(s))
\* is normalize_ticker(s) for every input string s.
C19_NormalizeIdempotent ==
    (call.fn = "normalize_ticker" /\ call.applied >= 2) => call.output = call.first

\* A second pass over the result of an input that every step changed
C19_Witness ==
    /\ call.fn = "normalize_ticker"
    /\ call.applied = 2
    /\ call.input = "$nyse:$f"
    /\ call.first = "F"
    /\ call.output = "F"

\* The six steps as the specification words them
\* 1: trim and uppercase
Step1(s) == StrUpper(Strip(s))

\* 2: strip one leading '$'
Step2(s) == IF Len(s) >= 1 /\ SubSeq(s, 1, 1) = "$" THEN SubSeq(s, 2, Len(s)) ELSE s

\* 3: strip a leading prefix of letters followed by a colon
Step3(s) ==
    LET colons == {n \in 2..Len(s) :
                      /\ CharAt(s, n) = ":"
                      /\ \A k \in 1..(n - 1) : InSeq(CharAt(s, k), UpperChars)}
    IN  IF colons = {} THEN s
        ELSE SubSeq(s, (CHOOSE n \in colons : TRUE) + 1, Len(s))

\* 4: drop every character outside A-Z, 0-9, '.', '-', '/'
RECURSIVE Step4(_)
Step4(s) ==
    IF s = "" THEN ""
    ELSE LET c == SubSeq(s, Len(s), Len(s))
         IN  Step4(SubSeq(s, 1, Len(s) - 1))
             \o (IF InSeq(c, UpperChars \o Digits \o <<".", "-", "/">>) THEN c ELSE "")

\* 5: replace '/' by '.'
Step5(s) == ReplaceChar(s, "/", ".")

\* 6: replace the hyphen by '.' when the whole string is 1-6 letters, a
\* hyphen, 1-3 letters or digits
Step6(s) ==
    IF \E a \in 1..6, b \in 1..3 :
           /\ Len(s) = a + 1 + b
           /\ \A k \in 1..a : InSeq(CharAt(s, k), UpperChars)
           /\ CharAt(s, a + 1) = "-"
           /\ \A k \in (a + 2)..(a + 1 + b) : InSeq(CharAt(s, k), UpperChars \o Digits)
    THEN ReplaceChar(s, "-", ".")
    ELSE s

SixSteps(s) == Step6(Step5(Step4(Step3(Step2(Step1(s))))))

\* The result contains only A-Z, 0-9, '.', '-'
OnlyTickerChars(s) ==
    \A k \in 1..Len(s) : InSeq(CharAt(s, k), UpperChars \o Digits \o <<".", "-">>)

\* The results the specification gives for four inputs
Expected(s) ==
    CASE s = "$TSLA" -> "TSLA"
      [] s = "NASDAQ:aapl" -> "AAPL"
      [] s = "BRK-B" -> "BRK.B"
      [] s = "BRK/B" -> "BRK.B"
      [] OTHER -> SixSteps(s)

\* C20: for every input string normalize_ticker returns the result of the six
\* steps in order, so that "$TSLA" gives "TSLA", "NASDAQ:aapl" gives "AAPL",
\* "BRK-B" and "BRK/B" give "BRK.B", and the result contains only characters
\* of A-Z, 0-9, '.', '-'.
C20_SixStepsInOrder ==
    (call.fn = "normalize_ticker" /\ call.applied >= 1) =>
        /\ call.first = SixSteps(call.input)
        /\ call.first = Expected(call.input)
        /\ OnlyTickerChars(call.first)

\* The exchange prefix of the specification's second example stripped
C20_Witness ==
    /\ call.fn = "normalize_ticker"
    /\ call.applied = 1
    /\ call.input = "NASDAQ:aapl"
    /\ call.first = "AAPL"

(***************************************************************************)
(* Properties of the Post-run Validator and of the ways a run ends         *)
(***************************************************************************)
\* The run has ended: analyze() returned its outcome or raised
Ended == pc \in {"returned", "raised"}

\* The run stopped before the batch was exhausted
StoppedEarly == hist.step \in {"cancel", "timeout", "interrupt", "quota", "raise"}

\* C21: in one run of analyze() the Post-run Validator is invoked exactly
\* once when the batch completes without an early stop, and is not invoked
\* when the run stops early (cancellation, deadline, quota exhaustion or
\* fatal authentication failure).
C21_ValidatorOnlyOnCompletion ==
    Ended => hist.cleanups = (IF StoppedEarly THEN 0 ELSE 1)

\* What holds of C21: the validator is invoked once on every path that
\* returns an outcome, early stop or not, and never when the run raises
C21_ValidatorOnEveryReturn ==
    /\ pc = "returned" => hist.cleanups = 1
    /\ pc = "raised" => hist.cleanups = 0
    /\ Running => hist.cleanups = 0

\* A step that runs the validator (a stop path of analyze)
ValidatorStep == hist'.cleanups = hist.cleanups + 1

\* The rows of f are rows of g, unchanged
SubTable(f, g) == \A k \in DOMAIN f : k \in DOMAIN g /\ g[k] = f[k]

C22_Step ==
    ValidatorStep =>
        /\ comments' = comments
        /\ SubTable(mentions', mentions)
        /\ DOMAIN analysis \subseteq DOMAIN analysis'
        /\ \A k \in DOMAIN analysis :
              (\/ analysis[k].status = "ok"
               \/ hist'.step # "quota"
               \/ k # <<cfg.analysis_tag, CurrentId>>) => analysis'[k] = analysis[k]
        /\ hist'.pruned = DOMAIN mentions \ DOMAIN mentions'
        /\ ~validation => (mentions' = mentions /\ yf_cache' = yf_cache)

\* C22: the Post-run Validator never inserts or modifies any row, never
\* deletes a status row or a record, and does nothing at all when validation
\* is disabled: a record stays 'ok' for the tag even after all its mentions
\* were pruned.
C22_ValidatorOnlyPrunesMentions == [][C22_Step]_vars

\* A record whose every mention the validator pruned, still 'ok'
C22_Witness ==
    /\ pc = "returned"
    /\ validation
    /\ \E k \in hist.pruned :
          /\ StatusOf(analysis, k[1], k[2]) = "ok"
          /\ MentionsOf(mentions, k[1], k[2]) = {}
          /\ StatusOf(disk.analysis, k[1], k[2]) = "ok"

\* The symbols of the mention rows the validator deleted
PrunedSymbols == {k[3] : k \in hist.pruned}

\* C23: when the validity oracle fails (raises) for a symbol, the symbol is
\* treated as unknown and the validator deletes no mention row for it; only
\* symbols the oracle positively rejects are deleted.
C23_OracleFailureDeletesNothing ==
    \A t \in DOMAIN hist.answers :
        t \in PrunedSymbols => hist.answers[t] = "empty"

\* What holds of C23: the validator deletes the rows of a symbol exactly when
\* the lookup gave no information or raised, and keeps them when it gave some
C23_FailureCountsAsRejection ==
    \A t \in DOMAIN hist.answers :
        /\ t \in PrunedSymbols => hist.answers[t] \in {"empty", "raise"}
        /\ hist.answers[t] \in {"empty", "raise"} =>
              /\ yf_cache[t] = "False"
              /\ ~\E k \in DOMAIN mentions : k[1] = cfg.analysis_tag /\ k[3] = t
        /\ hist.answers[t] = "info" => yf_cache[t] = "True"

\* The rows of table f that the run has written: those the store did not
\* hold, or held with another value, when the run started
WrittenRows(f, atStart) == {k \in DOMAIN f : k \notin DOMAIN atStart \/ atStart[k] # f[k]}

\* A step on which analyze() stops for cancellation or deadline expiry
StopStep == Running /\ hist'.step \in {"cancel", "timeout", "interrupt"}

\* The status rows the run wrote are in the committed store after the stop
StatusRowsKept ==
    \A k \in WrittenRows(analysis, hist.start.analysis) :
        k \in DOMAIN disk'.analysis /\ disk'.analysis[k] = analysis[k]

C24_Step ==
    StopStep =>
        /\ StatusRowsKept
        /\ \A k \in WrittenRows(mentions, hist.start.mentions) :
              k \in DOMAIN disk'.mentions /\ disk'.mentions[k] = mentions[k]

\* C24: when analyze() stops because of cancellation or deadline expiry,
\* every status row and every mention row it wrote for earlier candidates of
\* the run is in the committed store when it returns: stopping removes
\* nothing that was written.
C24_StopKeepsWhatWasWritten == [][C24_Step]_vars

C24_StepButPruned ==
    StopStep =>
        /\ pc' = "returned"
        /\ StatusRowsKept
        /\ disk' = Store(comments', analysis', mentions')
        /\ \A k \in WrittenRows(mentions, hist.start.mentions) :
              \/ k \in DOMAIN disk'.mentions /\ disk'.mentions[k] = mentions[k]
              \/ validation /\ k \in hist'.pruned /\ hist'.answers[k[3]] # "info"

\* What holds of C24: the stop commits every status row the run wrote, and
\* every mention row it wrote except those the validator, which the stop
\* path runs, deletes
C24_StopKeepsAllButPruned == [][C24_StepButPruned]_vars

\* The signal the caller of analyze() gets: the stop reason of the outcome
\* returned, or the failure propagated
Signal == IF pc = "raised" THEN "raised" ELSE outcome.stopped_reason

\* The terminal state of the run, from how it ended
Terminal ==
    CASE hist.step = "complete" -> "completed"
      [] hist.step \in {"cancel", "interrupt"} -> "cancelled"
      [] hist.step = "timeout" -> "deadline"
      [] hist.step = "quota" -> "quota"
      [] hist.step = "raise" -> "fatal_auth"
      [] OTHER -> "unknown"

\* The signal of each terminal state
SignalOf(terminal) ==
    CASE terminal = "completed" -> None
      [] terminal = "cancelled" -> "ctrl_c"
      [] terminal = "deadline" -> "timeout"
      [] terminal = "quota" -> "quota"
      [] terminal = "fatal_auth" -> "raised"
      [] OTHER -> "unknown"

\* C25: the way a run of analyze() ends identifies its terminal state: a
\* returned stop reason of none if and only if every candidate of the batch
\* was processed, distinct reasons for cancellation, deadline expiry and
\* quota exhaustion, and a propagated failure (no outcome) for FatalAuth; no
\* two terminal states share a signal.
C25_SignalIdentifiesTerminalState ==
    Ended =>
        /\ Terminal # "unknown"
        /\ Signal = SignalOf(Terminal)
        /\ \A other \in {"completed", "cancelled", "deadline", "quota", "fatal_auth"} :
              other # Terminal => SignalOf(other) # Signal
        /\ (pc = "returned" /\ outcome.stopped_reason = None) <=> idx > Len(candidates)
        /\ Terminal = "fatal_auth" <=> _is_fatal_auth(hist.err)
        /\ Terminal = "deadline" => DeadlineReached

\* A run that ended on its deadline with candidates left
C25_Witness ==
    /\ pc = "returned"
    /\ outcome.stopped_reason = "timeout"
    /\ hist.step = "timeout"
    /\ idx <= Len(candidates)
    /\ hist.invoked >= 1

(***************************************************************************)
(* SpecTags: a store that earlier runs under one or both tags have left,   *)
(* then a run of analyze() under one tag, with or without validation, and  *)
(* clears by tag                                                           *)
(***************************************************************************)
\* The records of the store
TaggedIds == {"c1", "c2"}

\* What an earlier run left for a record under a tag: nothing, an 'ok' row
\* with the record's mentions, or an 'error' row
Earlier == {"none", "ok", "error"}

\* The extraction result an earlier run wrote for a record
ResultFor(id) ==
    analyze_comment(IF id = "c1" THEN << <<"$tsla", "bullish">> >>
                    ELSE << <<"BRK-B", "bearish">>, <<"TSLA", "bearish">> >>)

\* The status rows earlier runs left: mark_analyzed_ok, mark_analyzed_error
EarlierAnalysis(e) ==
    [k \in {x \in DOMAIN e : e[x] # "none"} |->
        IF e[k] = "ok" THEN [status |-> "ok", error |-> NULL]
        ELSE [status |-> "error",
              error |-> Truncate("AttributeError: 'NoneType' object has no attribute 'mentions'",
                                 ErrorDetailMax)]]

\* The mention rows earlier runs left: save_mentions of the record's result
EarlierMentions(e) ==
    [m \in {x \in Tags \X TaggedIds \X Tickers :
                e[<<x[1], x[2]>>] = "ok" /\ x[3] \in DOMAIN ResultFor(x[2])} |->
        ResultFor(m[2])[m[3]]]

InitTags ==
    /\ comments \in {cs \in SelComments : DOMAIN cs = TaggedIds}
    /\ \E e \in [Tags \X TaggedIds -> Earlier] :
          /\ analysis = EarlierAnalysis(e)
          /\ mentions = EarlierMentions(e)
    /\ disk = Store(comments, analysis, mentions)
    /\ shortcut = FALSE
    /\ validation \in BOOLEAN
    /\ yf_cache = [t \in Tickers |-> "unset"]
    /\ pc = "idle"
    /\ cfg = NoCfg
    /\ candidates = << >>
    /\ idx = 1
    /\ attempt = 0
    /\ outcome = NoOutcome
    /\ now = 0
    /\ deadline = NoSeconds
    /\ next_call_at = 0
    /\ hist = NoHist
    /\ ops = 0
    /\ runs = 0
    /\ limiter = NoLimiter
    /\ call = NoCall

NextTags ==
    \/ \E tag \in Tags : ClearAnalysis(tag)
    \/ \E tag \in Tags, retry_errors \in BOOLEAN :
          AnalyzeStart(tag, 0 - 1, retry_errors, [none |-> TRUE, names |-> << >>],
                       0, NoSeconds)
    \/ Complete
    \/ ItemCancel
    \/ ItemBegin
    \/ AttemptCancel
    \/ \E raw \in OneRaw, d \in {0} : CallOk(raw, d)
    \/ \E d \in {0} : CallInterrupted(d)
    \/ \E e \in CoreErrors, d \in {0} : CallFatal(e, d)
    \/ \E e \in CoreErrors, d \in {0} : CallQuota(e, d)
    \/ \E e \in CoreErrors, d \in {0} : CallTransient(e, d, MaxRetry)
    \/ \E e \in CoreErrors, d \in {0} : CallPermanent(e, d)

SpecTags == InitTags /\ [][NextTags]_vars

\* The rows of a table (status rows or mention rows) whose tag is not tag
OtherTags(f, tag) == [k \in {x \in DOMAIN f : x[1] # tag} |-> f[k]]

\* The rows of a table whose tag is tag
OfTag(f, tag) == [k \in {x \in DOMAIN f : x[1] = tag} |-> f[k]]

\* Nothing of another tag than tag is created, changed or deleted, in the
\* connection's view and in the committed store
OtherTagsUntouched(tag) ==
    /\ OtherTags(analysis', tag) = OtherTags(analysis, tag)
    /\ OtherTags(mentions', tag) = OtherTags(mentions, tag)
    /\ OtherTags(disk'.analysis, tag) = OtherTags(disk.analysis, tag)
    /\ OtherTags(disk'.mentions, tag) = OtherTags(disk.mentions, tag)

C26_Step ==
    /\ (Running \/ Running') => OtherTagsUntouched(cfg'.analysis_tag)
    /\ ops' = ops + 1 =>
          \E tag \in Tags :
              /\ OtherTagsUntouched(tag)
              /\ OfTag(analysis', tag) = EmptyFn
              /\ OfTag(mentions', tag) = EmptyFn

\* The batch a run under a tag gets is one that the store without the rows
\* of the other tags gives
C26_Selection ==
    \A tag \in Tags, retry_errors \in BOOLEAN :
        fetch_candidates(comments, analysis, tag, 0 - 1, retry_errors,
                         [none |-> TRUE, names |-> << >>], FALSE)
        = fetch_candidates(comments, OfTag(analysis, tag), tag, 0 - 1, retry_errors,
                           [none |-> TRUE, names |-> << >>], FALSE)

\* C26: a run of analyze() under tag T, its validator pass included, and a
\* clear-by-tag of T never create, change or delete a status row or a mention
\* row whose tag is different from T; selection under T does not depend on
\* the rows of other tags.
C26_TagsAreIsolated == []C26_Selection /\ [][C26_Step]_vars

\* The validator of a run has pruned a symbol under the run's tag and the
\* other tag still has its mention row of that symbol
C26_Witness ==
    /\ pc = "returned"
    /\ validation
    /\ \E k \in hist.pruned :
          /\ k[1] = cfg.analysis_tag
          /\ \E m \in DOMAIN disk.mentions : m[1] # k[1] /\ m[3] = k[3]

\* Every mention row of a store refers to a record of the store
MentionsHaveRecords(st) == \A k \in DOMAIN st.mentions : k[2] \in DOMAIN st.comments

\* C27: in every committed store state reachable by any sequence of scrape,
\* analyze, validator pass, clear-by-tag and clear-dataset operations, every
\* mention row's record-id is the id of an existing record.
C27_MentionsReferToRecords ==
    /\ MentionsHaveRecords(disk)
    /\ MentionsHaveRecords(Store(comments, analysis, mentions))

\* A committed store with a mention row, after a run and its validator
C27_Witness ==
    /\ pc = "returned"
    /\ hist.cleanups = 1
    /\ DOMAIN disk.mentions # {}
    /\ MentionsHaveRecords(disk)

(***************************************************************************)
(* SpecCommit: one run of analyze() over a batch long enough for its       *)
(* periodic commits, from the point where the batch has been fetched       *)
(***************************************************************************)
\* The number of records of the batch
ManyRecords == 11

\* `if outcome.analyzed % 10 == 0: conn.commit()`
CommitBatch == 10

\* comment_id of the i-th newest record
RecordNames ==
    <<"r01", "r02", "r03", "r04", "r05", "r06", "r07", "r08", "r09", "r10", "r11", "r12",
      "r13">>

\* The records: one body with a vocabulary term, the others without;
\* created_utc falls with i, so ORDER BY created_utc DESC gives one order
ManyComments ==
    [id \in {RecordNames[i] : i \in 1..ManyRecords} |->
        LET i == CHOOSE j \in 1..ManyRecords : RecordNames[j] = id
        IN  [subreddit |-> "stocks", created_utc |-> 100 - i,
             body |-> IF i = 3 THEN "Buy TSLA" ELSE "TSLA moon"]]

\* What fetch_candidates returns for them: (comment_id, body), newest first
ManyCandidates ==
    [i \in 1..ManyRecords |-> <<RecordNames[i], ManyComments[RecordNames[i]].body>>]

\* analyze() after line 275: the batch fetched, no deadline, no pacing
InitCommit ==
    /\ comments = ManyComments
    /\ analysis = EmptyFn
    /\ mentions = EmptyFn
    /\ disk = Store(comments, EmptyFn, EmptyFn)
    /\ shortcut \in BOOLEAN
    /\ validation = FALSE
    /\ yf_cache = [t \in Tickers |-> "unset"]
    /\ pc = "item"
    /\ cfg = [analysis_tag |-> "t1", interval |-> 0]
    /\ candidates = ManyCandidates
    /\ idx = 1
    /\ attempt = 0
    /\ outcome = NoOutcome
    /\ now = 0
    /\ deadline = NoSeconds
    /\ next_call_at = 0
    /\ hist = [NoHist EXCEPT !.step = "start", !.start = Store(comments, EmptyFn, EmptyFn)]
    /\ ops = 0
    /\ runs = 1
    /\ limiter = NoLimiter
    /\ call = NoCall

NextCommit ==
    \/ Complete
    \/ ItemCancel
    \/ ItemShortcut
    \/ ItemBegin
    \/ \E raw \in OneRaw : CallOk(raw, 0)
    \/ \E e \in {x \in Errors : x.cls = "AttributeError"} : CallPermanent(e, 0)

SpecCommit == InitCommit /\ [][NextCommit]_vars

\* The successfully analyzed items whose 'ok' row is not committed
Pending ==
    {k \in DOMAIN analysis :
        /\ analysis[k].status = "ok"
        /\ k \notin DOMAIN disk.analysis \/ disk.analysis[k] # analysis[k]}

\* C28: at every point of a run of analyze(), with the keyword shortcut
\* enabled or disabled, the successfully analyzed items whose writes are not
\* committed yet are at most 10, and every path on which analyze() returns or
\* raises commits the pending writes first.
C28_AtMostTenPending ==
    /\ Cardinality(Pending) <= CommitBatch
    /\ Ended => Committed

\* What holds of C28: the bound with the shortcut disabled, and the commit on
\* every path that ends the run
C28_AtMostTenPendingWithoutShortcut ==
    /\ ~shortcut => Cardinality(Pending) <= CommitBatch
    /\ Ended => Committed
    /\ (~shortcut /\ pc = "item" /\ outcome.analyzed = CommitBatch /\ hist.step = "ok")
           => Pending = {}

\* C29: when analyze() returns, the outcome's analyzed_model_calls equals the
\* number of times the extraction service was invoked during the run, every
\* attempt that was made counted (a run ended by Ctrl-C inside its last
\* attempt is left out: the interrupt can come before the request is sent).
C29_CallsCountEveryAttempt ==
    (pc = "returned" /\ hist.step # "interrupt") =>
        outcome.analyzed_model_calls = hist.invoked

\* A step of a run adds one to analyzed_model_calls exactly when an attempt
\* answered; a blank item, a shortcut item and a failed attempt add nothing
C29_Step ==
    pc \in {"item", "attempt"} =>
        outcome'.analyzed_model_calls =
            outcome.analyzed_model_calls
                + (IF pc = "attempt" /\ hist'.step = "ok" THEN 1 ELSE 0)

\* What holds of C29: analyzed_model_calls counts the attempts that answered
C29_CallsCountAnswers ==
    /\ [](pc \in {"item", "attempt", "returned", "raised"} =>
              outcome.analyzed_model_calls <= hist.invoked)
    /\ [][C29_Step]_vars

\* C30: in a run with a deadline no pacing wait and no retry backoff sleep
\* ends after the deadline: every sleep lasts the time asked for or the time
\* remaining, whichever is less, and none is started once the deadline has
\* passed.
C30_SleepsEndByTheDeadline ==
    deadline # NoSeconds =>
        \A i \in 1..Len(hist.sleeps) :
            LET s == hist.sleeps[i]
            IN  /\ s.end <= deadline
                /\ s.start < deadline
                /\ s.end = s.start + Min(s.seconds, deadline - s.start)

\* A run whose last attempt slept for its pace and for its backoff, the
\* backoff cut short by the deadline
C30_Witness ==
    /\ deadline # NoSeconds
    /\ hist.step = "retry"
    /\ \E i \in 1..Len(hist.sleeps) :
          /\ hist.sleeps[i].start + hist.sleeps[i].seconds > deadline
          /\ hist.sleeps[i].end = deadline
    /\ now = deadline

\* A pacing wait cut short by the deadline
C30_PaceCutShort ==
    /\ deadline # NoSeconds
    /\ cfg.interval > 0
    /\ hist.step = "ok"
    /\ Len(hist.sleeps) = 1
    /\ hist.sleeps[1].start + hist.sleeps[1].seconds > deadline

(***************************************************************************)
(* Properties of the polling points of a run                               *)
(***************************************************************************)
\* C31: after every sleep of analyze() (pacing wait or retry backoff) the
\* deadline is checked before the next extraction call starts, so no
\* extraction call starts once the deadline has been reached.
C31_NoCallStartsAtTheDeadline ==
    deadline # NoSeconds =>
        \A i \in 1..Len(hist.starts) : hist.starts[i] < deadline

\* The clock is before the deadline where the attempt loop is left for _pace()
C31_Step ==
    (CallStep /\ deadline # NoSeconds) =>
        /\ now < deadline
        /\ PaceSleep(now) = << >> => _pace(now).now < deadline

\* What holds of C31: the deadline is checked after a backoff sleep and before
\* _pace(); a call that needs no pacing wait starts before the deadline
C31_CheckedBeforePacing == [][C31_Step]_vars

\* The run has stopped for cancellation or deadline expiry
StoppedBySignal == pc = "returned" /\ hist.step \in {"cancel", "timeout", "interrupt"}

\* The item in flight at the stop and the candidates after it
Unfinished == {candidates[i][1] : i \in idx..Len(candidates)}

\* The ids of a batch
IdsOf(batch) == {batch[i][1] : i \in 1..Len(batch)}

\* C32: after analyze() stops by cancellation or deadline expiry, the item in
\* flight and every later candidate of the batch have the status row, or the
\* absence of a row, they had before the run, so they satisfy the selection
\* predicate of every mode as before and the next fetch_candidates of the
\* same tag and mode returns them.
C32_UnfinishedItemsStaySelected ==
    StoppedBySignal =>
        \A id \in Unfinished :
            LET k == <<cfg.analysis_tag, id>> IN
            /\ k \in DOMAIN disk.analysis <=> k \in DOMAIN hist.start.analysis
            /\ k \in DOMAIN disk.analysis => disk.analysis[k] = hist.start.analysis[k]
            /\ \A retry_errors, include_skipped \in BOOLEAN :
                  Selected(disk.analysis, cfg.analysis_tag, id, retry_errors, include_skipped)
                     = Selected(hist.start.analysis, cfg.analysis_tag, id, retry_errors,
                                include_skipped)
            /\ \A batch \in fetch_candidates(disk.comments, disk.analysis, cfg.analysis_tag,
                                             Cardinality(Ids), FALSE,
                                             [none |-> TRUE, names |-> << >>], FALSE) :
                  id \in IdsOf(batch)

\* A run stopped by its deadline in the middle of the first item's retries,
\* with a candidate still to come
C32_Witness ==
    /\ StoppedBySignal
    /\ hist.step = "timeout"
    /\ idx = 1
    /\ Len(candidates) = 2
    /\ hist.invoked >= 2
    /\ Cardinality(Unfinished) = 2

\* A run cancelled at its second item after the first was analyzed
C32_CancelledAtSecond ==
    /\ StoppedBySignal
    /\ hist.step \in {"cancel", "interrupt"}
    /\ idx = 2
    /\ hist.attempted = {1, 2}
    /\ StatusOf(disk.analysis, cfg.analysis_tag, candidates[1][1]) = "ok"

(***************************************************************************)
(* SpecRetry: runs of analyze(), with a deadline or without, never         *)
(* cancelled, in which every extraction attempt fails with a Transient     *)
(* error.  The thread of the run keeps running: weak fairness of its steps *)
(***************************************************************************)
\* The steps of such a run (in it the deadline is never reached at the top
\* of an item: the clock moves only inside the attempts of an item, which
\* the run does not leave)
RetrySteps ==
    \/ Complete
    \/ ItemBlank
    \/ ItemBegin
    \/ AttemptTimeout
    \/ \E e \in Errors, d \in CallSeconds : CallTransient(e, d, MaxAttempt)

NextRetry ==
    \/ \E r \in Incoming : SaveComment(r)
    \/ \E timeout_seconds \in {NoSeconds, 0, TimeoutSeconds} :
          AnalyzeStart("t1", Cardinality(Ids), FALSE, [none |-> TRUE, names |-> << >>],
                       0, timeout_seconds)
    \/ RetrySteps

SpecRetry == InitTimed /\ [][NextRetry]_vars /\ WF_vars(RetrySteps)

\* C33: with a deadline every run of analyze() eventually returns, even when
\* every extraction attempt fails with a Transient error for ever, and it
\* then returns with the timeout reason; with no deadline and no cancellation
\* an item whose attempts always fail transiently is retried for ever and the
\* run never returns.
C33_OnlyTheDeadlineEndsRetries ==
    /\ (Running /\ deadline # NoSeconds) ~> (pc = "returned")
    /\ (pc = "attempt" /\ deadline # NoSeconds)
          ~> (pc = "returned" /\ outcome.stopped_reason = "timeout")
    /\ [](pc = "attempt" /\ deadline = NoSeconds => [](pc = "attempt"))
    /\ [][(pc = "attempt" /\ hist'.step = "retry") =>
              (pc' = "attempt" /\ idx' = idx /\ attempt' = attempt + 1)]_vars

\* A run ended by its deadline after three attempts that failed
C33_Witness ==
    /\ pc = "returned"
    /\ outcome.stopped_reason = "timeout"
    /\ hist.invoked = 3
    /\ hist.waits = <<1, 2, 4>>
    /\ now = deadline

\* A run without a deadline at its seventh retry of one item
C33_StillRetrying ==
    /\ pc = "attempt"
    /\ deadline = NoSeconds
    /\ attempt = MaxAttempt
    /\ idx = 1

(***************************************************************************)
(* SpecDelete: delete_mentions_for_tickers applied once to a store of      *)
(* mentions, for any tag and any list of symbols                           *)
(***************************************************************************)
\* The longest list of symbols passed
MaxList == 3

\* The most mention rows of the store
MaxRows == 3

\* chunk_size = 900, scaled so that the lists of the model span two chunks
ChunkSize == 2

\* The symbols a list may hold: the stored ones, one that is stored in upper
\* case only, and the empty string
ListedSymbols == Tickers \cup {"tsla", ""}

\* The lists of at most MaxList symbols, duplicates included
SymbolLists == UNION {[1..n -> ListedSymbols] : n \in 0..MaxList}

\* The stores of mentions the program can hold: rows of the symbols that
\* analyze_comment returns, under either tag, for two records
MentionStores ==
    LET keys == Tags \X {"c1", "c2"} \X Tickers
    IN  {[k \in K |-> "bullish"] : K \in {S \in SUBSET keys : Cardinality(S) <= MaxRows}}

InitDelete ==
    /\ comments = EmptyFn
    /\ analysis = EmptyFn
    /\ mentions \in MentionStores
    /\ disk = Store(EmptyFn, EmptyFn, mentions)
    /\ shortcut = FALSE
    /\ validation = FALSE
    /\ yf_cache = [t \in Tickers |-> "unset"]
    /\ pc = "idle"
    /\ cfg \in {[NoCfg EXCEPT !.analysis_tag = t] : t \in Tags}
    /\ candidates = << >>
    /\ idx = 1
    /\ attempt = 0
    /\ outcome = NoOutcome
    /\ now = 0
    /\ deadline = NoSeconds
    /\ next_call_at = 0
    /\ hist = NoHist
    /\ ops = 0
    /\ runs = 0
    /\ limiter = NoLimiter
    /\ call \in {[NoCall EXCEPT !.fn = "delete_mentions_for_tickers", !.input = l] :
                    l \in SymbolLists}

\* dict.fromkeys(tickers): the first occurrence of each symbol, in order
RECURSIVE FromKeys(_)
FromKeys(l) ==
    IF l = << >> THEN << >>
    ELSE LET front == FromKeys(SubSeq(l, 1, Len(l) - 1))
             last  == l[Len(l)]
         IN  IF \E i \in 1..Len(front) : front[i] = last THEN front ELSE Append(front, last)

\* ticker_list = [t for t in dict.fromkeys(tickers) if t]
TickerList(tickers) ==
    LET keys == FromKeys(tickers)
        RECURSIVE NonEmpty(_)
        NonEmpty(n) ==
            IF n = 0 THEN << >>
            ELSE IF keys[n] = "" THEN NonEmpty(n - 1) ELSE Append(NonEmpty(n - 1), keys[n])
    IN  NonEmpty(Len(keys))

\* ticker_list[i:i + chunk_size] with the slice one element short
Chunk_OneShort(l, i) == SubSeq(l, i, Min(i + ChunkSize - 2, Len(l)))

\* ticker_list[i:i + chunk_size], i counted from 1
Chunk(l, i) == SubSeq(l, i, Min(i + ChunkSize - 1, Len(l)))

\* The loop over the chunks from position i: each DELETE removes the rows of
\* the tag whose ticker is in the chunk and adds its rowcount to deleted
RECURSIVE DeleteChunks(_, _, _, _)
DeleteChunks(r, tag, l, i) ==
    IF i > Len(l) THEN r
    ELSE LET chunk == Chunk(l, i)
             gone  == {k \in DOMAIN r.mentions :
                          k[1] = tag /\ \E j \in 1..Len(chunk) : chunk[j] = k[3]}
         IN  DeleteChunks([mentions |-> DeleteKeys(r.mentions, gone),
                           deleted  |-> r.deleted + Cardinality(gone)],
                          tag, l, i + ChunkSize)

\* delete_mentions_for_tickers on a list: the mentions left and the number
\* returned
DeleteListed(ms, tag, tickers) ==
    LET ticker_list == TickerList(tickers)
    IN  IF ticker_list = << >> THEN [mentions |-> ms, deleted |-> 0]
        ELSE DeleteChunks([mentions |-> ms, deleted |-> 0], tag, ticker_list, 1)

\* One call of delete_mentions_for_tickers (it does not commit)
DeleteMentionsForTickers ==
    /\ call.fn = "delete_mentions_for_tickers"
    /\ call.applied = 0
    /\ LET r == DeleteListed(mentions, cfg.analysis_tag, call.input)
       IN  /\ mentions' = r.mentions
           /\ call' = [call EXCEPT !.output = r.deleted, !.applied = 1]
    /\ UNCHANGED <<comments, analysis, disk, shortcut, validation, yf_cache, pc, cfg,
                   candidates, idx, attempt, outcome, now, deadline, next_call_at, hist, ops,
                   runs, limiter>>

NextDelete == DeleteMentionsForTickers

SpecDelete == InitDelete /\ [][NextDelete]_vars

\* The symbols of a list
Listed(l) == {l[i] : i \in 1..Len(l)}

\* C34: for every tag and every list of symbols, with duplicates or empty
\* strings, shorter or longer than a chunk, delete_mentions_for_tickers leaves
\* exactly the mention rows of another tag or of a symbol not in the list,
\* unchanged, and returns the number of rows it deleted; its chunks remove the
\* rows that one deletion over the whole list removes.
C34_DeletesTheListedOfTheTag ==
    (call.fn = "delete_mentions_for_tickers" /\ call.applied = 1) =>
        LET before == disk.mentions
            tag    == cfg.analysis_tag
        IN  /\ DOMAIN mentions =
                  {k \in DOMAIN before : k[1] # tag \/ k[3] \notin Listed(call.input)}
            /\ \A k \in DOMAIN mentions : mentions[k] = before[k]
            /\ call.output = Cardinality(DOMAIN before \ DOMAIN mentions)
            /\ mentions = delete_mentions_for_tickers(before, tag, Listed(call.input))

\* A list longer than a chunk, with a duplicate, whose second chunk deletes
\* rows, on a store where a row of the other tag stays
C34_Witness ==
    /\ call.fn = "delete_mentions_for_tickers"
    /\ call.applied = 1
    /\ call.input = <<"tsla", "TSLA", "BRK.B">>
    /\ call.output = 2
    /\ Cardinality(DOMAIN mentions) = 1

\* A list with an empty string and a duplicate
C34_EmptyAndDuplicate ==
    /\ call.fn = "delete_mentions_for_tickers"
    /\ call.applied = 1
    /\ call.input = <<"", "TSLA", "TSLA">>
    /\ call.output = 2

(***************************************************************************)
(* SpecIngest: the records under ingestion, runs of analyze() and clears,  *)
(* with the last ingestion of an id that was already stored remembered     *)
(***************************************************************************)
\* The rows of a list whose id the store holds already
Known(cs, rows) == {i \in 1..Len(rows) : rows[i].comment_id \in DOMAIN cs}

\* The last ingestion that met a stored id: the id, the body stored and the
\* body that came
Met(cs, rows) ==
    IF Known(cs, rows) = {} THEN call
    ELSE LET r == rows[CHOOSE i \in Known(cs, rows) : \A j \in Known(cs, rows) : i <= j]
         IN  [fn |-> "save_comment", input |-> r.comment_id,
              first |-> cs[r.comment_id].body, output |-> r.body, applied |-> 1]

\* db.save_comment with one row, then the caller's commit
IngestComment(r) ==
    /\ ~Running
    /\ ops < MaxOps
    /\ ops' = ops + 1
    /\ comments' = save_comment(comments, r)
    /\ disk' = Store(comments', analysis, mentions)
    /\ call' = Met(comments, <<r>>)
    /\ Forgotten
    /\ UNCHANGED <<analysis, mentions, shortcut, validation, yf_cache, runs, limiter>>

\* db.save_comments_bulk with the rows of a scrape, then the caller's commit
IngestBulk(batch) ==
    /\ ~Running
    /\ ops < MaxOps
    /\ ops' = ops + 1
    /\ LET rows == SelectSeq(ScrapedRows(batch), LAMBDA r : r.body # "")
       IN  /\ comments' = save_comments_bulk(comments, rows)
           /\ call' = Met(comments, rows)
    /\ disk' = Store(comments', analysis, mentions)
    /\ Forgotten
    /\ UNCHANGED <<analysis, mentions, shortcut, validation, yf_cache, runs, limiter>>

NextIngest ==
    \/ \E r \in Incoming : IngestComment(r)
    \/ \E batch \in Batches : IngestBulk(batch)
    \/ \E tag \in Tags : ClearAnalysis(tag)
    \/ ClearDataset
    \/ AnalyzeStart("t1", Cardinality(Ids), FALSE, [none |-> TRUE, names |-> << >>],
                    0, NoSeconds)
    \/ RunSteps(OneRaw, CoreErrors, {0}, MaxRetry)

SpecIngest == Init /\ [][NextIngest]_vars

\* A step keeps every record as it is, or is the clear of the dataset; a step
\* of a run, its validator included, and the start of a run keep them all
C35_Step ==
    /\ \/ \A id \in DOMAIN comments :
             /\ id \in DOMAIN comments' /\ comments'[id] = comments[id]
             /\ id \in DOMAIN disk'.comments /\ disk'.comments[id] = comments[id]
       \/ /\ ~Running
          /\ comments' = EmptyFn /\ analysis' = EmptyFn /\ mentions' = EmptyFn
          /\ disk' = Store(EmptyFn, EmptyFn, EmptyFn)
    /\ (Running \/ pc' = "item") => (comments' = comments /\ disk'.comments = disk.comments)

\* C35: an existing record is never changed: ingesting a record whose id is
\* stored already (save_comment, save_comments_bulk) leaves the stored record
\* as it was, analyze() and the validator write no record, and a record
\* disappears only through the clear of the dataset.
C35_RecordsNeverChange == [][C35_Step]_vars

\* A record came whose id was stored with another body, and the store still
\* holds the body it had
C35_Witness ==
    /\ call.fn = "save_comment"
    /\ call.applied = 1
    /\ call.first # call.output
    /\ call.input \in DOMAIN comments
    /\ comments[call.input].body = call.first
    /\ disk.comments = comments

(***************************************************************************)
(* SpecAtomic: the store under scrapes, runs of analyze(), validator       *)
(* passes and clears, where Ctrl-C may also arrive between the two writes  *)
(* of an item                                                              *)
(***************************************************************************)
\* Lines 317-336: the call answered raw and save_mentions wrote its rows;
\* KeyboardInterrupt arrives before mark_analyzed_ok, and the handler commits
WriteInterrupted(raw, d) ==
    /\ pc = "attempt"
    /\ ~DeadlineReached
    /\ analyze_comment(raw) # EmptyFn
    /\ LET p     == _pace(now)
           saved == save_mentions(mentions, cfg.analysis_tag, CurrentId, analyze_comment(raw))
       IN /\ next_call_at' = p.next_call_at
          /\ \E ans \in [Asked(saved, cfg.analysis_tag, yf_cache) -> OracleAnswers] :
                /\ mentions' = _cleanup_invalid_tickers(saved, cfg.analysis_tag, yf_cache, ans)
                /\ yf_cache' = CleanupCache(saved, cfg.analysis_tag, yf_cache, ans)
                /\ hist' = [Called(hist, "interrupt", NoError) EXCEPT
                                !.cleanups = @ + 1,
                                !.pruned = DOMAIN saved \ DOMAIN mentions',
                                !.answers = ans]
          /\ now' = p.now + d
    /\ disk' = Store(comments, analysis, mentions')
    /\ outcome' = [outcome EXCEPT !.analyzed_model_calls = @ + 1,
                                  !.stopped_reason = "ctrl_c"]
    /\ pc' = "returned"
    /\ call' = [NoCall EXCEPT !.fn = "save_mentions", !.first = cfg.analysis_tag,
                              !.input = CurrentId]
    /\ UNCHANGED <<comments, analysis, shortcut, validation, cfg, candidates, idx,
                   attempt, deadline, ops, runs, limiter>>

NextAtomic ==
    \/ \E batch \in Batches : Scrape(batch)
    \/ \E r \in Incoming : SaveComment(r)
    \/ \E tag \in Tags : ClearAnalysis(tag)
    \/ ClearDataset
    \/ \E tag \in Tags, retry_errors \in BOOLEAN :
          AnalyzeStart(tag, Cardinality(Ids), retry_errors, [none |-> TRUE, names |-> << >>],
                       0, NoSeconds)
    \/ RunSteps(OneRaw, CoreErrors, {0}, MaxRetry)
    \/ \E raw \in OneRaw : WriteInterrupted(raw, 0)

SpecAtomic == Init /\ [][NextAtomic]_vars

\* C36: in every committed store reachable from the empty store by runs of
\* analyze(), validator passes and clear operations, a (tag, record) that has
\* a mention row has a status row with status 'ok': the mentions and the 'ok'
\* mark of an item are committed together or not at all.
C36_MentionsOnlyWithOkRow ==
    \A k \in DOMAIN disk.mentions : StatusOf(disk.analysis, k[1], k[2]) = "ok"

\* What holds of C36: the only mentions without an 'ok' row are those of an
\* item whose writes Ctrl-C separated
C36_MentionsWithOkRowUnlessInterrupted ==
    \A k \in DOMAIN disk.mentions :
        \/ StatusOf(disk.analysis, k[1], k[2]) = "ok"
        \/ call.fn = "save_mentions" /\ k[1] = call.first /\ k[2] = call.input

(***************************************************************************)
(* The counters of the RunOutcome                                          *)
(***************************************************************************)
\* The candidates of the batch whose body is not blank
WithBody == {i \in 1..Len(candidates) : TextOf[candidates[i][2]] # ""}

\* C37: when analyze() returns with stop reason none, every candidate of the
\* batch with a non-blank body has a status row under the tag whose status is
\* 'ok' or 'error', and analyzed + errors is the number of those candidates.
C37_CompletedRunAccountsForEveryItem ==
    (pc = "returned" /\ outcome.stopped_reason = None) =>
        /\ \A i \in WithBody :
              /\ StatusOf(analysis, cfg.analysis_tag, candidates[i][1]) \in {"ok", "error"}
              /\ StatusOf(disk.analysis, cfg.analysis_tag, candidates[i][1]) \in {"ok", "error"}
        /\ outcome.analyzed + outcome.errors = Cardinality(WithBody)

\* A completed run over a blank item, an item that failed for good and an
\* item analyzed
C37_Witness ==
    /\ pc = "returned"
    /\ outcome.stopped_reason = None
    /\ Len(candidates) = 3
    /\ Cardinality(WithBody) = 2
    /\ outcome.analyzed = 1
    /\ outcome.errors = 1

\* The candidates for which this run wrote an 'error' row: those it called
\* the service for and left marked 'error', the current one counted when the
\* run stopped on it for quota
ErrorRowsWritten ==
    {i \in hist.attempted :
        /\ StatusOf(analysis, cfg.analysis_tag, candidates[i][1]) = "error"
        /\ i < idx \/ hist.step = "quota"}

\* The rows written by a run are as many as errors, plus one after a quota stop
C38_State ==
    pc \in {"item", "attempt", "returned", "raised"} =>
        Cardinality(ErrorRowsWritten)
            = outcome.errors + (IF outcome.stopped_reason = "quota" THEN 1 ELSE 0)

\* errors grows by one at a permanent failure and at no other step; a
\* transient failure writes nothing; a quota stop marks the item 'error'
C38_Step ==
    Running =>
        /\ outcome'.errors = outcome.errors + (IF hist'.step = "error" THEN 1 ELSE 0)
        /\ hist'.step = "retry" =>
              analysis' = analysis /\ mentions' = mentions /\ disk' = disk
        /\ hist'.step = "quota" =>
              /\ StatusOf(analysis', cfg.analysis_tag, CurrentId) = "error"
              /\ StatusOf(disk'.analysis, cfg.analysis_tag, CurrentId) = "error"
              /\ outcome'.stopped_reason = "quota"

\* C38: the errors counter of the RunOutcome is incremented only by a
\* PermanentItemError; transient failures and retries never change it and
\* write no status row; the item of a quota stop is marked 'error' without
\* being counted; so the 'error' rows a run wrote are errors, plus one when
\* the stop reason is quota.
C38_ErrorsCountPermanentFailures == []C38_State /\ [][C38_Step]_vars

\* A run that marked one item for a permanent failure and stopped for quota
\* on the next, after a retry
C38_Witness ==
    /\ pc = "returned"
    /\ outcome.stopped_reason = "quota"
    /\ outcome.errors = 1
    /\ Cardinality(ErrorRowsWritten) = 2
    /\ hist.invoked >= 3

(***************************************************************************)
(* The item of a quota stop in later selections                            *)
(***************************************************************************)
\* The status rows a quota stop wrote: 'error' with the text of a failure
\* that is handled as QuotaExhausted
QuotaRows(an) ==
    {k \in DOMAIN an :
        \E e \in Errors :
            /\ HandlingOf[e] = "quota"
            /\ an[k] = mark_analyzed_error(EmptyFn, k[1], k[2], ErrorText(e))[k]}

\* After a quota stop the item has such a row, and as long as a record has
\* one no selection in default mode returns it, while retry mode selects it
C39_State ==
    /\ (pc = "returned" /\ hist.step = "quota") =>
           <<cfg.analysis_tag, CurrentId>> \in QuotaRows(disk.analysis)
    /\ \A k \in QuotaRows(disk.analysis) :
           k[2] \in DOMAIN disk.comments =>
              /\ \A subreddits \in SubredditArgs :
                    \A batch \in fetch_candidates(disk.comments, disk.analysis, k[1], 0 - 1,
                                                  FALSE, subreddits, FALSE) :
                        \A i \in 1..Len(batch) : batch[i][1] # k[2]
              /\ k[2] \in Matching(disk.comments, disk.analysis, k[1], TRUE,
                                   [none |-> TRUE, names |-> << >>], FALSE)

\* The row stays until a clear removes the rows of its tag, a run that
\* selected the item (in retry mode) handles it again, or the record is
\* marked 'skipped' from outside
C39_Step ==
    \A k \in QuotaRows(analysis) :
        \/ k \in QuotaRows(analysis')
        \/ ~Running /\ RowsOf(analysis', k[1]) = {}
        \/ Running /\ k = <<cfg.analysis_tag, CurrentId>>
                   /\ k \in QuotaRows(hist.start.analysis)
        \/ ~Running /\ StatusOf(analysis', k[1], k[2]) = "skipped"

\* C39: after a run stopped by quota exhaustion, the item on which the quota
\* error occurred is not returned by selection in default mode
\* (retry_errors = False) in any later run of the same tag; only selection in
\* retry mode or a clear of the tag makes it a candidate again.
C39_QuotaItemIsNotReselected == []C39_State /\ [][C39_Step]_vars

\* After a quota stop and a later scrape the item has its row, and another
\* record is selected in default mode
C39_Witness ==
    /\ pc = "idle"
    /\ runs = 1
    /\ \E k \in QuotaRows(disk.analysis) :
          /\ k[2] \in DOMAIN disk.comments
          /\ Matching(disk.comments, disk.analysis, k[1], FALSE,
                      [none |-> TRUE, names |-> << >>], FALSE) # {}

====
